---- MODULE Spec2Model ----
(***************************************************************************)
(* Block-Requirement link consistency of DocBrand: the LinkIndex cache,    *)
(* the EditorController link/unlink operations and the document edits      *)
(* that reach the index.                                                   *)
(*                                                                         *)
(* JavaScript arrays are objects: LinkIndex.traverseAndIndex stores the    *)
(* document's own linkedRequirements array in blockToReqs and addLink      *)
(* pushes onto the stored array.  Arrays therefore live in a heap, and a   *)
(* document node and an index entry hold addresses of arrays.              *)
(***************************************************************************)
EXTENDS Integers, Sequences, FiniteSets, TLC

\* ------------------------------------------------------------------------
\* Bounds of the model
\* ------------------------------------------------------------------------
MaxInitBlocks == 2      \* nodes of the document the editor is created with
MaxBlocks == 2          \* nodes of the document after duplications
MaxNow == 1             \* largest reading of the clock (Date.now())
MaxMeta == 1            \* longest addedLinks / removedLinks of a raw update
MaxUndo == 2            \* transactions the history plugin keeps
MaxUndoBlocks == 1      \* nodes of the document of a view with history
MaxMetaRecords == 1     \* longest metaRecords of a prepared snapshot
MaxDepth == 1           \* docBlocks a docBlock can be inside of
MaxSavedBlocks == 1     \* nodes of a content loaded into a view
MaxLinked == 2          \* longest linkedBlockIds of a requirement of the store
MaxLeaseTime == 3       \* largest reading of the clock of the views with leases
MaxRegistrations == 2   \* registrations of a handler a view makes at most
MaxFlushHandlers == 3   \* registrations of page lifecycle flush handlers
MaxWrapBlocks == 2      \* nodes of the document of a view with the wrapper
MaxWrapUndo == 1        \* transactions the history of such a view keeps
MaxClock == 30000       \* largest reading of the clock of the forced flushes, in ms
MaxCallPeriod == 5001   \* longest time between two calls of maybeForceFlush, in ms

BlockOrder == <<"b1", "b2">>
BlockIds == {BlockOrder[i] : i \in DOMAIN BlockOrder}
ReqIds == {"r1", "r2"}
Coverages == {"full", "partial"}
NoId == "null"          \* attrs.id of a docBlock created without an id
NoType == ""            \* attrs.blockType of a node that has none

\* confidence of every record the code creates (1.0)
Confidence == 1

Addrs == 1..(MaxBlocks + Cardinality(BlockIds) + MaxUndo + 2)

VARIABLES
    doc,            \* editor.state.doc in document order (depth-first, a
                    \* node before its children): nodes [type, id, lr,
                    \* depth, blockType]
    heap,           \* address -> array of LinkedRequirement records
    reqToBlocks,    \* LinkIndex.reqToBlocks: reqId -> set of blockIds
    blockToReqs,    \* LinkIndex.blockToReqs: blockId -> address of an array
    now,            \* the clock
    ready,          \* the editor was created and its index built (onCreate)
    ret,            \* the last operation and what it returned
    history,        \* the history plugin: documents to undo to and to redo to
    db,             \* the Dexie database: tables documents and blockMeta
    blockIndex,     \* the blocks map of the BlockIndex plugin state
    log,            \* what the last operation did besides returning
    requirements,   \* the requirements store: id -> [status, linkedBlockIds]
    locks,          \* the Dexie table locks: docId -> LockRecord
    views,          \* the open views (tabs) of the application
    page,           \* document.visibilityState and the event listeners of
                    \* document and window
    lastSaveTime,   \* lastSaveTime of the storage utilities
    options         \* the options of the DocBlockWrapper extension of the view

vars ==
    <<doc, heap, reqToBlocks, blockToReqs, now, ready, ret, history, db, blockIndex, log,
      requirements, locks, views, page, lastSaveTime, options>>

\* ------------------------------------------------------------------------
\* Records, maps and lists
\* ------------------------------------------------------------------------
LinkedRequirement(reqId, coverage, ts) ==
    [reqId |-> reqId, coverage |-> coverage, confidence |-> Confidence, timestamp |-> ts]

\* Map.set / Map.delete on a function whose domain is the set of keys
MapSet(m, k, v) == [x \in (DOMAIN m) \cup {k} |-> IF x = k THEN v ELSE m[x]]
MapDelete(m, k) == [x \in (DOMAIN m) \ {k} |-> m[x]]
EmptyMap == <<>>

ReqIdsOf(list) == {list[i].reqId : i \in DOMAIN list}
\* list.some((r) => r.reqId === reqId)
SomeReq(list, reqId) == \E i \in DOMAIN list : list[i].reqId = reqId
\* list.filter((r) => r.reqId !== reqId)
FilterOut(list, reqId) == SelectSeq(list, LAMBDA r : r.reqId # reqId)

\* position of a selection nothing has set
NoPos == 0 - 1

\* blocks.get(blockId) of an id the map does not hold (undefined)
NoPosition == [pos |-> NoPos, nodeSize |-> 0, type |-> "undefined", hasLinks |-> FALSE]

\* the answers of an operation that asked nothing
NoAnswer ==
    [position |-> NoPosition, requirements |-> <<>>, blocks |-> {},
     hasLinks |-> FALSE, linked |-> FALSE, count |-> 0]

\* (appended, root, changed: the wrapping transactions appended to the last
\* transaction, the document that transaction left, and its docChanged)
\* an operation that has done nothing yet: transactions dispatched, calls of
\* applyTransactionUpdate, document position its selection was put at,
\* exception thrown, answers to its queries, callbacks called (in order)
\* addOptions() of DocBlockWrapper
DefaultOptions == [enabled |-> FALSE]

\* no 'index:updated' event
NoEvent == [blockId |-> NoId, addedLinks |-> <<>>, removedLinks |-> <<>>]

NoLog ==
    [dispatched |-> 0, updates |-> 0, pos |-> NoPos, threw |-> FALSE, answer |-> NoAnswer,
     calls |-> <<>>, at |-> 0, emitted |-> NoEvent,
     appended |-> 0, root |-> <<>>, changed |-> FALSE]

\* a page that is shown and has no event listener; live: the registrations
\* of flush handlers made so far that were not cleaned up
NoPage ==
    [visibilityState |-> "visible", visibilitychange |-> <<>>, pagehide |-> <<>>,
     beforeunload |-> <<>>, registered |-> 0, live |-> <<>>]

\* The world an operation works on
World ==
    [heap |-> heap, doc |-> doc, reqToBlocks |-> reqToBlocks, blockToReqs |-> blockToReqs,
     hist |-> history, db |-> db, blocks |-> blockIndex, log |-> NoLog,
     reqs |-> requirements, locks |-> locks, views |-> views,
     page |-> page, lastSaveTime |-> lastSaveTime, options |-> options]

IsDocBlock(node) == node.type = "docBlock"

\* ------------------------------------------------------------------------
\* The document tree.  A document is the sequence of its block nodes in
\* document order, each with its depth (0: a child of the doc node); the
\* children of a node are the nodes of depth one more that follow it.  A
\* docBlock holds exactly one block (content: 'block'): the docBlock that
\* follows it one level down or, when none does, an empty paragraph.  Text
\* is not part of the model.
\* ------------------------------------------------------------------------
\* the last node of the subtree of node i
SubtreeEnd(d, i) ==
    CHOOSE j \in i..Len(d) :
        /\ \A k \in (i + 1)..j : d[k].depth > d[i].depth
        /\ (j < Len(d) => d[j + 1].depth <= d[i].depth)

\* node k is inside node i
Inside(d, i, k) == i < k /\ k <= SubtreeEnd(d, i)

\* Node.descendants(f): the nodes f is called on, when f returns false at the
\* nodes of the set cut (the children of such a node are skipped, its
\* siblings are not)
Visited(d, cut) == {k \in DOMAIN d : \A i \in 1..(k - 1) : Inside(d, i, k) => i \notin cut}

\* the arrays the nodes of a document refer to, in document order (0: none)
DocRefs(d) == [k \in DOMAIN d |-> IF IsDocBlock(d[k]) THEN d[k].lr ELSE 0]

RECURSIVE FlatRefs(_)
FlatRefs(docs) == IF docs = <<>> THEN <<>> ELSE DocRefs(Head(docs)) \o FlatRefs(Tail(docs))

\* the documents the history plugin can bring back
HistDocs(w) == w.hist.undo \o w.hist.redo

\* the arrays the live objects refer to: the document, the index, the history
Refs(w) ==
    DocRefs(w.doc)
      \o [k \in DOMAIN BlockOrder |->
             IF BlockOrder[k] \in DOMAIN w.blockToReqs THEN w.blockToReqs[BlockOrder[k]] ELSE 0]
      \o FlatRefs(HistDocs(w))

\* Addresses of the arrays some live object refers to
UsedAddrs(w) == {Refs(w)[k] : k \in DOMAIN Refs(w)} \ {0}

\* A new array: the lowest address nothing refers to
Alloc(w) == CHOOSE a \in Addrs \ UsedAddrs(w) : \A b \in Addrs \ UsedAddrs(w) : a <= b

Renumber(d, rank) ==
    [i \in DOMAIN d |-> IF IsDocBlock(d[i]) THEN [d[i] EXCEPT !.lr = rank[d[i].lr]] ELSE d[i]]

\* Arrays nothing refers to any more are collected, and the arrays that are
\* left are numbered in the order the document, the index and the history
\* refer to them (an address has no meaning beyond identity).
Collect(w) ==
    LET refs == Refs(w)
        used == {refs[k] : k \in DOMAIN refs} \ {0}
        first == [a \in used |->
                    CHOOSE k \in DOMAIN refs :
                        refs[k] = a /\ \A j \in 1..(k - 1) : refs[j] # a]
        rank == [a \in used |-> Cardinality({x \in used : first[x] < first[a]}) + 1]
        back == [n \in 1..Cardinality(used) |-> CHOOSE a \in used : rank[a] = n]
    IN  [heap |-> [n \in Addrs |->
                      IF n <= Cardinality(used) THEN w.heap[back[n]] ELSE <<>>],
         doc |-> Renumber(w.doc, rank),
         reqToBlocks |-> w.reqToBlocks,
         blockToReqs |-> [b \in DOMAIN w.blockToReqs |-> rank[w.blockToReqs[b]]],
         hist |-> [undo |-> [k \in DOMAIN w.hist.undo |-> Renumber(w.hist.undo[k], rank)],
                   redo |-> [k \in DOMAIN w.hist.redo |-> Renumber(w.hist.redo[k], rank)]],
         db |-> w.db,
         blocks |-> w.blocks,
         log |-> w.log,
         reqs |-> w.reqs,
         locks |-> w.locks,
         views |-> w.views,
         page |-> w.page,
         lastSaveTime |-> w.lastSaveTime,
         options |-> w.options]

\* ------------------------------------------------------------------------
\* LinkIndex
\* ------------------------------------------------------------------------
clear(w) == [w EXCEPT !.reqToBlocks = EmptyMap, !.blockToReqs = EmptyMap]

\* the loop of traverseAndIndex over one block's records
IndexRecords(r2b, list, blockId) ==
    [r \in (DOMAIN r2b) \cup ReqIdsOf(list) |->
        IF r \in ReqIdsOf(list)
        THEN (IF r \in DOMAIN r2b THEN r2b[r] ELSE {}) \cup {blockId}
        ELSE r2b[r]]

IndexNode(w, node) ==
    IF IsDocBlock(node) /\ node.id # NoId /\ Len(w.heap[node.lr]) > 0
    THEN [w EXCEPT !.blockToReqs = MapSet(w.blockToReqs, node.id, node.lr),
                   !.reqToBlocks = IndexRecords(w.reqToBlocks, w.heap[node.lr], node.id)]
    ELSE w

RECURSIVE traverseAndIndex(_, _)
traverseAndIndex(w, i) ==
    IF i > Len(w.doc) THEN w
    ELSE traverseAndIndex(IndexNode(w, w.doc[i]), i + 1)

\* mutant of rebuildFromDocument: the traversal is merged into the entries
\* that are there instead of replacing them
MergeNode(w, node) ==
    IF IsDocBlock(node) /\ node.id # NoId /\ Len(w.heap[node.lr]) > 0
    THEN IF node.id \in DOMAIN w.blockToReqs
         THEN [w EXCEPT !.heap[w.blockToReqs[node.id]] = @ \o w.heap[node.lr],
                        !.reqToBlocks = IndexRecords(w.reqToBlocks, w.heap[node.lr], node.id)]
         ELSE IndexNode(w, node)
    ELSE w

RECURSIVE traverseAndMerge(_, _)
traverseAndMerge(w, i) ==
    IF i > Len(w.doc) THEN w
    ELSE traverseAndMerge(MergeNode(w, w.doc[i]), i + 1)

rebuildMerging(w) == traverseAndMerge(w, 1)

rebuildFromDocument(w) == traverseAndIndex(clear(w), 1)

\* mutant of addLink: the reverse map is not updated
addLinkForward(w, blockId, reqId, coverage, ts) ==
    LET w1 == IF blockId \notin DOMAIN w.blockToReqs
              THEN LET a == Alloc(w)
                   IN  [w EXCEPT !.heap[a] = <<>>,
                                 !.blockToReqs = MapSet(w.blockToReqs, blockId, a)]
              ELSE w
        reqs == w1.blockToReqs[blockId]
    IN  IF ~SomeReq(w1.heap[reqs], reqId)
        THEN [w1 EXCEPT !.heap[reqs] = Append(@, LinkedRequirement(reqId, coverage, ts))]
        ELSE w1

addLink(w, blockId, reqId, coverage, ts) ==
    LET w1 == IF blockId \notin DOMAIN w.blockToReqs
              THEN LET a == Alloc(w)
                   IN  [w EXCEPT !.heap[a] = <<>>,
                                 !.blockToReqs = MapSet(w.blockToReqs, blockId, a)]
              ELSE w
        reqs == w1.blockToReqs[blockId]
        w2 == IF ~SomeReq(w1.heap[reqs], reqId)
              THEN [w1 EXCEPT !.heap[reqs] = Append(@, LinkedRequirement(reqId, coverage, ts))]
              ELSE w1
        blocks == IF reqId \in DOMAIN w2.reqToBlocks THEN w2.reqToBlocks[reqId] ELSE {}
    IN  [w2 EXCEPT !.reqToBlocks = MapSet(w2.reqToBlocks, reqId, blocks \cup {blockId})]

\* mutant of removeLink: a list that became empty is stored, not deleted
removeLinkUnpruned(w, blockId, reqId) ==
    LET w1 == IF blockId \in DOMAIN w.blockToReqs
              THEN LET a == Alloc(w)
                   IN  [w EXCEPT !.heap[a] = FilterOut(w.heap[w.blockToReqs[blockId]], reqId),
                                 !.blockToReqs = MapSet(w.blockToReqs, blockId, a)]
              ELSE w
    IN  IF reqId \in DOMAIN w1.reqToBlocks
        THEN LET blocks == w1.reqToBlocks[reqId] \ {blockId}
             IN  IF blocks = {}
                 THEN [w1 EXCEPT !.reqToBlocks = MapDelete(w1.reqToBlocks, reqId)]
                 ELSE [w1 EXCEPT !.reqToBlocks = MapSet(w1.reqToBlocks, reqId, blocks)]
        ELSE w1

\* mutant of removeLink: the reverse map is not updated
removeLinkForward(w, blockId, reqId) ==
    IF blockId \in DOMAIN w.blockToReqs
    THEN LET filtered == FilterOut(w.heap[w.blockToReqs[blockId]], reqId)
         IN  IF Len(filtered) > 0
             THEN LET a == Alloc(w)
                  IN  [w EXCEPT !.heap[a] = filtered,
                                !.blockToReqs = MapSet(w.blockToReqs, blockId, a)]
             ELSE [w EXCEPT !.blockToReqs = MapDelete(w.blockToReqs, blockId)]
    ELSE w

removeLink(w, blockId, reqId) ==
    LET w1 == IF blockId \in DOMAIN w.blockToReqs
              THEN LET filtered == FilterOut(w.heap[w.blockToReqs[blockId]], reqId)
                   IN  IF Len(filtered) > 0
                       THEN LET a == Alloc(w)
                            IN  [w EXCEPT !.heap[a] = filtered,
                                          !.blockToReqs = MapSet(w.blockToReqs, blockId, a)]
                       ELSE [w EXCEPT !.blockToReqs = MapDelete(w.blockToReqs, blockId)]
              ELSE w
    IN  IF reqId \in DOMAIN w1.reqToBlocks
        THEN LET blocks == w1.reqToBlocks[reqId] \ {blockId}
             IN  IF blocks = {}
                 THEN [w1 EXCEPT !.reqToBlocks = MapDelete(w1.reqToBlocks, reqId)]
                 ELSE [w1 EXCEPT !.reqToBlocks = MapSet(w1.reqToBlocks, reqId, blocks)]
        ELSE w1

RECURSIVE RemoveAll(_, _, _, _)
RemoveAll(w, blockId, removedLinks, i) ==
    IF i > Len(removedLinks) THEN w
    ELSE RemoveAll(removeLink(w, blockId, removedLinks[i]), blockId, removedLinks, i + 1)

RECURSIVE AddAll(_, _, _, _, _)
AddAll(w, blockId, addedLinks, tss, i) ==
    IF i > Len(addedLinks) THEN w
    ELSE AddAll(addLink(w, blockId, addedLinks[i].reqId, addedLinks[i].coverage, tss[i]),
                blockId, addedLinks, tss, i + 1)

\* the payload of the 'index:updated' event
Updated(meta) ==
    [blockId |-> meta.blockId, addedLinks |-> meta.addedLinks,
     removedLinks |-> meta.removedLinks]

\* an update that handles the added links before the removed ones
applyAddingFirst(w, meta, tss) ==
    [RemoveAll(AddAll(w, meta.blockId, meta.addedLinks, tss, 1),
               meta.blockId, meta.removedLinks, 1)
        EXCEPT !.log.updates = @ + 1, !.log.emitted = Updated(meta)]

\* meta = [blockId, addedLinks, removedLinks]; tss[i] is the clock read by the
\* i-th addLink
applyTransactionUpdate(w, meta, tss) ==
    [AddAll(RemoveAll(w, meta.blockId, meta.removedLinks, 1),
            meta.blockId, meta.addedLinks, tss, 1)
        EXCEPT !.log.updates = @ + 1, !.log.emitted = Updated(meta)]

getBlocksForRequirement(w, reqId) ==
    IF reqId \in DOMAIN w.reqToBlocks THEN w.reqToBlocks[reqId] ELSE {}

getRequirementsForBlock(w, blockId) ==
    IF blockId \in DOMAIN w.blockToReqs THEN w.heap[w.blockToReqs[blockId]] ELSE <<>>

isRequirementLinked(w, reqId) ==
    reqId \in DOMAIN w.reqToBlocks /\ Cardinality(w.reqToBlocks[reqId]) > 0

hasLinks(w, blockId) ==
    blockId \in DOMAIN w.blockToReqs /\ Len(w.heap[w.blockToReqs[blockId]]) > 0

getLinkCount(w, blockId) ==
    IF blockId \in DOMAIN w.blockToReqs THEN Len(w.heap[w.blockToReqs[blockId]]) ELSE 0

RECURSIVE SumLen(_, _)
SumLen(w, bs) ==
    IF bs = {} THEN 0
    ELSE LET b == CHOOSE x \in bs : TRUE
         IN  Len(w.heap[w.blockToReqs[b]]) + SumLen(w, bs \ {b})

getTotalLinkCount(w) == SumLen(w, DOMAIN w.blockToReqs)

verifySyncWithDocument(w) ==
    LET freshIndex == rebuildFromDocument(w)
    IN  /\ Cardinality(DOMAIN w.blockToReqs) = Cardinality(DOMAIN freshIndex.blockToReqs)
        /\ \A blockId \in DOMAIN w.blockToReqs :
              /\ blockId \in DOMAIN freshIndex.blockToReqs
              /\ Len(w.heap[w.blockToReqs[blockId]])
                    = Len(freshIndex.heap[freshIndex.blockToReqs[blockId]])

\* mutant of verifySyncEffect: a failed check rebuilds the live index
verifySyncRepairing(w) == IF verifySyncWithDocument(w) THEN w ELSE rebuildFromDocument(w)

\* What a call of verifySyncWithDocument leaves behind: freshIndex is another
\* LinkIndex, built over the arrays of the same document; the maps of the
\* live index are only read.
verifySyncEffect(w) ==
    LET freshIndex == rebuildFromDocument(w)
    IN  [w EXCEPT !.heap = freshIndex.heap]

\* ------------------------------------------------------------------------
\* The BlockIndex plugin
\* ------------------------------------------------------------------------
\* nodeSize of a paragraph without text: its opening and its closing token
ParagraphSize == 2

\* the tokens of node k that are not tokens of a node inside it: a paragraph,
\* or the opening and closing token of a docBlock and, when no docBlock is
\* inside it, the paragraph it holds
Own(d, k) ==
    IF d[k].type = "horizontalRule" THEN 1
    ELSE IF ~IsDocBlock(d[k]) THEN ParagraphSize
    ELSE IF SubtreeEnd(d, k) > k THEN 2 ELSE 2 + ParagraphSize

RECURSIVE SumOver(_, _, _)
SumOver(f, a, b) == IF a > b THEN 0 ELSE f[a] + SumOver(f, a + 1, b)

\* node.nodeSize
nodeSize(d, i) == SumOver([k \in DOMAIN d |-> Own(d, k)], i, SubtreeEnd(d, i))

\* the position descendants passes with node i: the tokens before it, which
\* are the opening tokens of the nodes it is inside and all the tokens of the
\* nodes that end before it
posOf(d, i) ==
    SumOver([k \in DOMAIN d |-> IF Inside(d, k, i) THEN 1 ELSE Own(d, k)], 1, i - 1)

\* the BlockPosition buildBlockIndex sets for node i
BlockPosition(w, i) ==
    [pos |-> posOf(w.doc, i),
     nodeSize |-> nodeSize(w.doc, i),
     type |-> IF w.doc[i].blockType = NoType THEN "paragraph" ELSE w.doc[i].blockType,
     hasLinks |-> Len(w.heap[w.doc[i].lr]) > 0]

\* doc.descendants: at a docBlock whose id is truthy, blocks.set(id, ...) and
\* return false; at any other node return true.  A later set of the same id
\* replaces the earlier one.
buildBlockIndex(w) ==
    LET Indexed(i) == IsDocBlock(w.doc[i]) /\ w.doc[i].id # NoId
        set == {i \in Visited(w.doc, {k \in DOMAIN w.doc : Indexed(k)}) : Indexed(i)}
        Last(id) == CHOOSE i \in set : w.doc[i].id = id
                                      /\ \A j \in set : w.doc[j].id = id => j <= i
    IN  [id \in {w.doc[i].id : i \in set} |-> BlockPosition(w, Last(id))]

\* the plugin state never rebuilt: the value of the old state
applyKeeping(value, docChanged, newState) == value

\* state.apply of the plugin: value is the blocks map of the old state,
\* newState the world with the document of the new state
apply(value, docChanged, newState) ==
    IF ~docChanged THEN value ELSE buildBlockIndex(newState)

getBlockPosition(w, blockId) ==
    IF blockId \in DOMAIN w.blocks THEN w.blocks[blockId] ELSE NoPosition

\* RequirementLinking.onTransaction for a transaction with this meta
onTransaction(w, meta, tss) ==
    IF meta.type = "linkChange" THEN applyTransactionUpdate(w, meta, tss) ELSE w

NoMeta == [type |-> "none"]

\* ------------------------------------------------------------------------
\* DocBlockWrapper.  A transaction is [docChanged, own]: own is the meta
\* DocBlockWrapperKey.  A raw top-level node has no node of the model inside
\* it, so the wrapper takes its place in the sequence, its blockType telling
\* what it holds.
\* ------------------------------------------------------------------------
WRAPPABLE_BLOCKS ==
    {"paragraph", "heading", "bulletList", "orderedList", "taskList", "blockquote",
     "codeBlock", "table"}

\* the ids `block-${uuidv4().slice(0, 8)}` gives, in the order it gives them
WrapperIds == <<"block-1", "block-2", "block-3", "block-4", "block-5", "block-6">>

IdsOf(d) == {d[k].id : k \in DOMAIN d}

\* the ids of the documents of the view and of its history
UsedIds(w) ==
    IdsOf(w.doc) \cup UNION {IdsOf(HistDocs(w)[k]) : k \in DOMAIN HistDocs(w)}

\* an id that always is the same
uuidConstant(w) == WrapperIds[1]

\* a new id: one no document of the view ever held
uuidv4(w) ==
    WrapperIds[CHOOSE k \in DOMAIN WrapperIds :
                  /\ WrapperIds[k] \notin UsedIds(w)
                  /\ \A j \in 1..(k - 1) : WrapperIds[j] \in UsedIds(w)]

\* the blockType of the wrapper of a node
BlockTypeOf(name) ==
    IF name = "heading" THEN "heading"
    ELSE IF name \in {"bulletList", "orderedList", "taskList"} THEN "list"
    ELSE IF name = "table" THEN "table"
    ELSE IF name = "codeBlock" THEN "codeBlock"
    ELSE "paragraph"

\* the first top-level wrappable node only
toWrapFirst(d) ==
    {k \in DOMAIN d : /\ d[k].depth = 0 /\ d[k].type \in WRAPPABLE_BLOCKS
                      /\ \A j \in 1..(k - 1) : d[j].depth # 0
                                                   \/ d[j].type \notin WRAPPABLE_BLOCKS}

\* doc.forEach: the top-level nodes of a wrappable type
toWrap(d) == {k \in DOMAIN d : d[k].depth = 0 /\ d[k].type \in WRAPPABLE_BLOCKS}

\* tr.replaceWith(pos, pos + node.nodeSize, wrapper) for node k
wrapNode(w, k) ==
    LET a == Alloc(w)
    IN  [w EXCEPT !.heap[a] = <<>>,
                  !.doc[k] = [type |-> "docBlock", id |-> uuidv4(w), lr |-> a, depth |-> 0,
                              blockType |-> BlockTypeOf(w.doc[k].type)]]

\* the loop over toWrap, from its last entry to its first
RECURSIVE wrapAll(_, _)
wrapAll(w, nodes) ==
    IF nodes = {} THEN w
    ELSE LET k == CHOOSE x \in nodes : \A y \in nodes : y <= x
         IN  wrapAll(wrapNode(w, k), nodes \ {k})

\* the transaction the wrapper returns
WrappingTr == [docChanged |-> TRUE, own |-> TRUE]

\* a wrapper that does not look whether the document changed
appendWithoutChange(w, transactions) ==
    IF ~w.options.enabled THEN [w |-> w, appended |-> FALSE]
    ELSE IF \E k \in DOMAIN transactions : transactions[k].own
    THEN [w |-> w, appended |-> FALSE]
    ELSE IF toWrap(w.doc) = {} THEN [w |-> w, appended |-> FALSE]
    ELSE [w |-> [wrapAll(w, toWrap(w.doc)) EXCEPT !.log.appended = @ + 1],
          appended |-> TRUE]

\* a wrapper that wraps one node for each transaction
appendWrappingOne(w, transactions) ==
    IF ~w.options.enabled THEN [w |-> w, appended |-> FALSE]
    ELSE IF \E k \in DOMAIN transactions : transactions[k].own
    THEN [w |-> w, appended |-> FALSE]
    ELSE IF ~\E k \in DOMAIN transactions : transactions[k].docChanged
    THEN [w |-> w, appended |-> FALSE]
    ELSE IF toWrap(w.doc) = {} THEN [w |-> w, appended |-> FALSE]
    ELSE [w |-> [wrapAll(w, toWrapFirst(w.doc)) EXCEPT !.log.appended = @ + 1],
          appended |-> TRUE]

\* appendTransaction(transactions, oldState, newState), w holding newState
appendTransaction(w, transactions) ==
    IF ~w.options.enabled THEN [w |-> w, appended |-> FALSE]
    ELSE IF \E k \in DOMAIN transactions : transactions[k].own
    THEN [w |-> w, appended |-> FALSE]
    ELSE IF ~\E k \in DOMAIN transactions : transactions[k].docChanged
    THEN [w |-> w, appended |-> FALSE]
    ELSE IF toWrap(w.doc) = {} THEN [w |-> w, appended |-> FALSE]
    ELSE [w |-> [wrapAll(w, toWrap(w.doc)) EXCEPT !.log.appended = @ + 1],
          appended |-> TRUE]

\* EditorState.applyTransaction: the plugin is given the transactions it has
\* not seen, n being those it has, until it appends none
RECURSIVE applyTransaction(_, _, _)
applyTransaction(w, trs, n) ==
    IF n >= Len(trs) THEN w
    ELSE LET r == appendTransaction(w, SubSeq(trs, n + 1, Len(trs)))
         IN  IF r.appended
             THEN applyTransaction(r.w, Append(trs, WrappingTr), Len(trs) + 1)
             ELSE r.w

\* the document with the linkedRequirements in the place of their arrays
DocumentOf(w) ==
    [k \in DOMAIN w.doc |->
        [type |-> w.doc[k].type, id |-> w.doc[k].id, depth |-> w.doc[k].depth,
         blockType |-> w.doc[k].blockType,
         links |-> IF IsDocBlock(w.doc[k]) THEN w.heap[w.doc[k].lr] ELSE <<>>]]

\* view.dispatch(tr), w holding the document tr leaves: the plugins apply the
\* transaction to their state and append theirs, then the extensions'
\* onTransaction runs
dispatch(w, docChanged, meta, tss) ==
    LET applied ==
            applyTransaction([w EXCEPT !.log.root = DocumentOf(w),
                                       !.log.changed = docChanged, !.log.appended = 0],
                             <<[docChanged |-> docChanged, own |-> FALSE]>>, 0)
    IN  onTransaction([applied EXCEPT !.blocks = apply(w.blocks, docChanged, applied),
                                      !.log.dispatched = @ + 1],
                      meta, tss)

\* ------------------------------------------------------------------------
\* EditorController
\* ------------------------------------------------------------------------
\* state.doc.descendants visits every node the callback does not cut off;
\* the callback overwrites `result` at every docBlock with this id it visits
\* and returns false there, so the children of a match are not visited and
\* the last match visited is the result.  0: null.
findBlock(w, blockId) ==
    LET Matches(i) == IsDocBlock(w.doc[i]) /\ w.doc[i].id = blockId
        hits == {i \in Visited(w.doc, {k \in DOMAIN w.doc : Matches(k)}) : Matches(i)}
    IN  IF hits = {} THEN 0 ELSE CHOOSE i \in hits : \A j \in hits : j <= i

\* linkRequirementToBlock with the link change set as meta of its transaction
linkAnnotating(w, blockId, reqId, t1, t2) ==
    LET pos == findBlock(w, blockId)
    IN  IF pos = 0 THEN [w |-> w, ok |-> FALSE]
        ELSE LET currentLinks == w.heap[w.doc[pos].lr]
             IN  IF SomeReq(currentLinks, reqId) THEN [w |-> w, ok |-> FALSE]
                 ELSE LET updated == Alloc(w)
                          w1 == [w EXCEPT
                                   !.heap[updated] =
                                       Append(currentLinks, LinkedRequirement(reqId, "full", t1)),
                                   !.doc[pos].lr = updated]
                          meta == [type |-> "linkChange", blockId |-> blockId,
                                   addedLinks |-> <<[reqId |-> reqId, coverage |-> "full"]>>,
                                   removedLinks |-> <<>>]
                      IN  [w |-> applyTransactionUpdate(dispatch(w1, TRUE, meta, <<t2>>),
                                                        meta, <<t2>>),
                           ok |-> TRUE]

\* t1: the clock read for the document's record, t2: the one read by addLink
linkRequirementToBlock(w, blockId, reqId, t1, t2) ==
    LET pos == findBlock(w, blockId)
    IN  IF pos = 0 THEN [w |-> w, ok |-> FALSE]
        ELSE LET currentLinks == w.heap[w.doc[pos].lr]
             IN  IF SomeReq(currentLinks, reqId) THEN [w |-> w, ok |-> FALSE]
                 ELSE LET updated == Alloc(w)
                          w1 == [w EXCEPT
                                   !.heap[updated] =
                                       Append(currentLinks, LinkedRequirement(reqId, "full", t1)),
                                   !.doc[pos].lr = updated]
                          meta == [blockId |-> blockId,
                                   addedLinks |-> <<[reqId |-> reqId, coverage |-> "full"]>>,
                                   removedLinks |-> <<>>]
                      IN  [w |-> applyTransactionUpdate(dispatch(w1, TRUE, NoMeta, <<>>),
                                                        meta, <<t2>>),
                           ok |-> TRUE]

unlinkRequirementFromBlock(w, blockId, reqId) ==
    LET pos == findBlock(w, blockId)
    IN  IF pos = 0 THEN [w |-> w, ok |-> FALSE]
        ELSE LET currentLinks == w.heap[w.doc[pos].lr]
                 updated == Alloc(w)
                 w1 == [w EXCEPT !.heap[updated] = FilterOut(currentLinks, reqId),
                                 !.doc[pos].lr = updated]
                 meta == [blockId |-> blockId, addedLinks |-> <<>>,
                          removedLinks |-> <<reqId>>]
             IN  [w |-> applyTransactionUpdate(dispatch(w1, TRUE, NoMeta, <<>>), meta, <<>>),
                  ok |-> TRUE]

\* doc.content.size
contentSize(d) == SumOver([k \in DOMAIN d |-> Own(d, k)], 1, Len(d))

\* state.doc.resolve(pos) throws a RangeError outside 0..doc.content.size
resolves(d, pos) == pos >= 0 /\ pos <= contentSize(d)

\* the selection transaction of scrollToBlock and selectBlock: the position
\* is resolved in state.doc, the selection set near it, the transaction
\* dispatched (it has no step)
selectAt(w, pos) ==
    IF ~resolves(w.doc, pos) THEN [w |-> [w EXCEPT !.log.threw = TRUE], ok |-> FALSE]
    ELSE [w |-> dispatch([w EXCEPT !.log.pos = pos], FALSE, NoMeta, <<>>), ok |-> TRUE]

scrollToBlock(w, blockId) ==
    LET blockPos == getBlockPosition(w, blockId)
    IN  IF blockPos = NoPosition THEN [w |-> w, ok |-> FALSE]
        ELSE selectAt(w, blockPos.pos + 1)

selectBlock(w, blockId) ==
    LET blockPos == getBlockPosition(w, blockId)
    IN  IF blockPos = NoPosition THEN [w |-> w, ok |-> FALSE]
        ELSE LET contentStart == blockPos.pos + 1
             IN  selectAt(w, contentStart)

\* ------------------------------------------------------------------------
\* Initial states
\* ------------------------------------------------------------------------
\* Link lists a document can hold when it is loaded: written by
\* linkRequirementToBlock, so coverage 'full' and one record per reqId.
InitLists ==
    {<<>>}
      \cup {<<LinkedRequirement(r, "full", 0)>> : r \in ReqIds}
      \cup {<<LinkedRequirement(p[1], "full", 0), LinkedRequirement(p[2], "full", 0)>> :
                p \in {x \in ReqIds \X ReqIds : x[1] # x[2]}}

NodeKinds ==
    {[type |-> "paragraph", id |-> NoId, links |-> <<>>, depth |-> 0, blockType |-> NoType],
     [type |-> "docBlock", id |-> NoId, links |-> <<>>, depth |-> 0,
      blockType |-> "paragraph"]}
      \cup {[type |-> "docBlock", id |-> b, links |-> l, depth |-> 0,
              blockType |-> "paragraph"] : b \in BlockIds, l \in InitLists}

\* Link lists of the documents with nested docBlocks
NestedLists == {<<>>, <<LinkedRequirement("r1", "full", 0)>>}

\* DocBlock key invariant: every block has a unique stable id
UniqueIds(d) ==
    \A i \in DOMAIN d, j \in DOMAIN d :
        (i # j /\ IsDocBlock(d[i]) /\ IsDocBlock(d[j]) /\ d[i].id # NoId) => d[i].id # d[j].id

NoRet == [op |-> "none", blockId |-> NoId, reqId |-> "none", ok |-> FALSE]

\* the history plugin of a new view: nothing to undo, nothing to redo
NoHistory == [undo |-> <<>>, redo |-> <<>>]

\* new DocBrandDatabase(): tables keyed by their primary key 'id'
EmptyDb == [documents |-> EmptyMap, blockMeta |-> EmptyMap]

\* Documents a view can be created with: up to MaxInitBlocks nodes
InitKinds == UNION {[1..n -> NodeKinds] : n \in 0..MaxInitBlocks}

\* The document made of these kinds of node, its arrays laid out after `base`
DocOf(kinds, base) ==
    [i \in DOMAIN kinds |->
        [type |-> kinds[i].type, id |-> kinds[i].id,
         depth |-> kinds[i].depth, blockType |-> kinds[i].blockType,
         lr |-> IF kinds[i].type = "docBlock" THEN base + i ELSE 0]]

HeapWith(h, kinds, base) ==
    [a \in Addrs |-> IF a - base \in DOMAIN kinds THEN kinds[a - base].links ELSE h[a]]

EmptyHeap == [a \in Addrs |-> <<>>]

\* An editor view about to be created on a document whose block ids are unique
Init ==
    \E kinds \in InitKinds :
        /\ doc = DocOf(kinds, 0)
        /\ UniqueIds(doc)
        /\ heap = HeapWith(EmptyHeap, kinds, 0)
        /\ reqToBlocks = EmptyMap
        /\ blockToReqs = EmptyMap
        /\ now = 0
        /\ ready = FALSE
        /\ ret = NoRet
        /\ history = NoHistory
        /\ db = EmptyDb
        /\ blockIndex = buildBlockIndex([doc |-> doc, heap |-> heap])
        /\ log = NoLog
        /\ requirements = EmptyMap
        /\ locks = EmptyMap
        /\ views = EmptyMap
        /\ page = NoPage
        /\ lastSaveTime = 0
        /\ options = DefaultOptions

\* An editor view about to be created on a saved document: handleDuplicate
\* copies a block with its id and nothing gives the copy another one, so a
\* saved document can hold the same id twice; its arrays are its own.
InitSaved ==
    \E kinds \in InitKinds :
        /\ doc = DocOf(kinds, 0)
        /\ heap = HeapWith(EmptyHeap, kinds, 0)
        /\ reqToBlocks = EmptyMap
        /\ blockToReqs = EmptyMap
        /\ now = 0
        /\ ready = FALSE
        /\ ret = NoRet
        /\ history = NoHistory
        /\ db = EmptyDb
        /\ blockIndex = buildBlockIndex([doc |-> doc, heap |-> heap])
        /\ log = NoLog
        /\ requirements = EmptyMap
        /\ locks = EmptyMap
        /\ views = EmptyMap
        /\ page = NoPage
        /\ lastSaveTime = 0
        /\ options = DefaultOptions

\* the world after an operation becomes the next state
Becomes(w) ==
    \E c \in {Collect(w)} :
        /\ doc' = c.doc
        /\ heap' = c.heap
        /\ reqToBlocks' = c.reqToBlocks
        /\ blockToReqs' = c.blockToReqs
        /\ history' = c.hist
        /\ db' = c.db
        /\ blockIndex' = c.blocks
        /\ log' = c.log
        /\ requirements' = c.reqs
        /\ locks' = c.locks
        /\ views' = c.views
        /\ page' = c.page
        /\ lastSaveTime' = c.lastSaveTime
        /\ options' = c.options

Ret(op, blockId, reqId, ok) == [op |-> op, blockId |-> blockId, reqId |-> reqId, ok |-> ok]

\* ------------------------------------------------------------------------
\* The LinkIndex used on its own: a new LinkIndex(), then calls of
\* rebuildFromDocument and applyTransactionUpdate with any arguments.
\* Here doc is the document given to the last rebuildFromDocument; it is let
\* go of at the next update.
\* ------------------------------------------------------------------------
InitIndex ==
    /\ doc = <<>>
    /\ heap = EmptyHeap
    /\ reqToBlocks = EmptyMap
    /\ blockToReqs = EmptyMap
    /\ now = 0
    /\ ready = FALSE
    /\ ret = NoRet
    /\ history = NoHistory
    /\ db = EmptyDb
    /\ blockIndex = buildBlockIndex([doc |-> doc, heap |-> heap])
    /\ log = NoLog
    /\ requirements = EmptyMap
    /\ locks = EmptyMap
    /\ views = EmptyMap
    /\ page = NoPage
    /\ lastSaveTime = 0
    /\ options = DefaultOptions

RebuildFromDocument ==
    \E kinds \in InitKinds :
        LET base == Cardinality(UsedAddrs([World EXCEPT !.doc = <<>>]))
            w == [World EXCEPT !.doc = DocOf(kinds, base),
                               !.heap = HeapWith(heap, kinds, base)]
        IN  /\ UniqueIds(w.doc)
            /\ Becomes(rebuildFromDocument(w))
            /\ ret' = Ret("rebuild", NoId, "none", TRUE)
            /\ UNCHANGED <<now, ready>>

SeqsUpTo(S, n) == UNION {[1..k -> S] : k \in 0..n}
AddedLinkSet == {[reqId |-> r, coverage |-> c] : r \in ReqIds, c \in Coverages}
NonDecreasing(tss) == \A i \in DOMAIN tss : \A j \in DOMAIN tss : i <= j => tss[i] <= tss[j]

ApplyTransactionUpdate ==
    \E blockId \in BlockIds, removedLinks \in SeqsUpTo(ReqIds, MaxMeta),
       addedLinks \in SeqsUpTo(AddedLinkSet, MaxMeta) :
      \E tss \in [DOMAIN addedLinks -> now..MaxNow] :
        /\ NonDecreasing(tss)
        /\ Becomes(applyTransactionUpdate([World EXCEPT !.doc = <<>>],
                      [blockId |-> blockId, addedLinks |-> addedLinks,
                       removedLinks |-> removedLinks], tss))
        /\ now' = IF addedLinks = <<>> THEN now ELSE tss[Len(tss)]
        /\ ret' = Ret("update", blockId, "none", TRUE)
        /\ UNCHANGED ready

NextIndex == RebuildFromDocument \/ ApplyTransactionUpdate

SpecIndex == InitIndex /\ [][NextIndex]_vars

\* ------------------------------------------------------------------------
\* An editor view: RequirementLinking.onCreate, then the EditorController
\* operations and the block handle's Duplicate, in any order.
\* ------------------------------------------------------------------------
\* RequirementLinking.onCreate: linkIndex.rebuildFromDocument(editor.getJSON())
OnCreate ==
    /\ ~ready
    /\ Becomes(rebuildFromDocument(World))
    /\ ready' = TRUE
    /\ ret' = Ret("create", NoId, "none", TRUE)
    /\ UNCHANGED now

\* a later rebuildFromDocument on the current document (recovery)
Rebuild ==
    /\ ready
    /\ Becomes(rebuildFromDocument(World))
    /\ ret' = Ret("rebuild", NoId, "none", TRUE)
    /\ UNCHANGED <<now, ready>>

Link ==
    \E blockId \in BlockIds, reqId \in ReqIds, t1 \in now..MaxNow :
      \E t2 \in t1..MaxNow :
        \E res \in {IF ready THEN linkRequirementToBlock(World, blockId, reqId, t1, t2)
                             ELSE [w |-> World, ok |-> FALSE]} :
            /\ Becomes(res.w)
            /\ ret' = Ret("link", blockId, reqId, res.ok)
            /\ now' = IF res.ok THEN t2 ELSE now
            /\ UNCHANGED ready

Unlink ==
    \E blockId \in BlockIds, reqId \in ReqIds :
        \E res \in {IF ready THEN unlinkRequirementFromBlock(World, blockId, reqId)
                             ELSE [w |-> World, ok |-> FALSE]} :
            /\ Becomes(res.w)
            /\ ret' = Ret("unlink", blockId, reqId, res.ok)
            /\ UNCHANGED <<now, ready>>

\* insertContentAt(pos + node.nodeSize, node.toJSON()): the copy of the node
\* that starts at i, with what is inside it, goes after it; it carries the
\* attrs of its nodes, id and linkedRequirements array included
InsertAfter(d, i, nodes) ==
    LET e == SubtreeEnd(d, i)
    IN  SubSeq(d, 1, e) \o nodes \o SubSeq(d, e + 1, Len(d))

\* nodeAt(handlePosition.pos) is the node that starts where the content of the
\* hovered element starts: a docBlock when the element holds docBlocks (a
\* blockquote, a table cell: nodes between the docBlocks are not modelled)
handleDuplicate(w, i) ==
    dispatch([w EXCEPT !.doc = InsertAfter(w.doc, i, SubSeq(w.doc, i, SubtreeEnd(w.doc, i)))],
             TRUE, NoMeta, <<>>)

Duplicate ==
    \E i \in DOMAIN doc :
        /\ ready
        /\ doc[i].depth = 0
        /\ Len(doc) + (SubtreeEnd(doc, i) - i + 1) <= MaxBlocks
        /\ Becomes(handleDuplicate(World, i))
        /\ ret' = Ret("duplicate", doc[i].id, "none", TRUE)
        /\ UNCHANGED <<now, ready>>

\* the sanity check of onDestroy (development builds) and of pre-save
\* checks: verifySyncWithDocument(editor.getJSON())
VerifySync ==
    /\ ready
    /\ Becomes(verifySyncEffect(World))
    /\ ret' = Ret("verify", NoId, "none", verifySyncWithDocument(World))
    /\ UNCHANGED <<now, ready>>

\* link and unlink only, on the document the view was created with
NextLink == OnCreate \/ Link \/ Unlink
SpecLink == Init /\ [][NextLink]_vars

\* link and unlink operations in a view created on a saved document
SpecSaved == InitSaved /\ [][NextLink]_vars

Next == OnCreate \/ Rebuild \/ Link \/ Unlink \/ Duplicate
Spec == Init /\ [][Next]_vars

\* a session in which the sanity check is run at any moment
NextCheck == Next \/ VerifySync
SpecCheck == Init /\ [][NextCheck]_vars

\* ------------------------------------------------------------------------
\* Navigation and queries, on documents whose docBlocks can be nested
\* (DocBlock: group 'block', content 'block').
\* ------------------------------------------------------------------------
BlockTypes == {"paragraph", "heading"}

NestedKinds ==
    {[type |-> "paragraph", id |-> NoId, links |-> <<>>, depth |-> 0, blockType |-> NoType]}
      \cup {[type |-> "docBlock", id |-> b, links |-> l, depth |-> dp, blockType |-> t] :
                b \in BlockIds \cup {NoId}, l \in NestedLists, dp \in 0..MaxDepth,
                t \in BlockTypes}

\* the schema: a node is inside the docBlock before it or beside a node
\* before it, and a docBlock holds one block
WellFormed(d) ==
    /\ d # <<>> => d[1].depth = 0
    /\ \A k \in 2..Len(d) :
          /\ d[k].depth <= d[k - 1].depth + 1
          /\ d[k].depth = d[k - 1].depth + 1 => IsDocBlock(d[k - 1])
    /\ \A i \in DOMAIN d :
          Cardinality({k \in DOMAIN d : Inside(d, i, k) /\ d[k].depth = d[i].depth + 1}) <= 1

\* An editor view about to be created on a document with nested docBlocks
\* whose ids are unique
InitBlocks ==
    \E kinds \in UNION {[1..n -> NestedKinds] : n \in 0..MaxInitBlocks} :
        /\ doc = DocOf(kinds, 0)
        /\ WellFormed(doc)
        /\ UniqueIds(doc)
        /\ heap = HeapWith(EmptyHeap, kinds, 0)
        /\ reqToBlocks = EmptyMap
        /\ blockToReqs = EmptyMap
        /\ now = 0
        /\ ready = FALSE
        /\ ret = NoRet
        /\ history = NoHistory
        /\ db = EmptyDb
        /\ blockIndex = buildBlockIndex([doc |-> doc, heap |-> heap])
        /\ log = NoLog
        /\ requirements = EmptyMap
        /\ locks = EmptyMap
        /\ views = EmptyMap
        /\ page = NoPage
        /\ lastSaveTime = 0
        /\ options = DefaultOptions

ScrollToBlock ==
    \E blockId \in BlockIds :
        \E res \in {IF ready THEN scrollToBlock(World, blockId)
                             ELSE [w |-> World, ok |-> FALSE]} :
            /\ Becomes(res.w)
            /\ ret' = Ret("scroll", blockId, "none", res.ok)
            /\ UNCHANGED <<now, ready>>

SelectBlock ==
    \E blockId \in BlockIds :
        \E res \in {IF ready THEN selectBlock(World, blockId)
                             ELSE [w |-> World, ok |-> FALSE]} :
            /\ Becomes(res.w)
            /\ ret' = Ret("select", blockId, "none", res.ok)
            /\ UNCHANGED <<now, ready>>

\* the read queries with a get-or-create of the block's entry
queriesCreating(w, blockId, reqId) ==
    [w EXCEPT !.blockToReqs =
                  IF blockId \in DOMAIN w.blockToReqs THEN @
                  ELSE MapSet(@, blockId, Alloc(w)),
              !.log.answer = NoAnswer]

\* the read queries of the two indexes, asked about a block and a requirement
queries(w, blockId, reqId) ==
    [w EXCEPT !.log.answer =
        [position |-> getBlockPosition(w, blockId),
         requirements |-> getRequirementsForBlock(w, blockId),
         blocks |-> getBlocksForRequirement(w, reqId),
         hasLinks |-> hasLinks(w, blockId),
         linked |-> isRequirementLinked(w, reqId),
         count |-> getLinkCount(w, blockId)]]

Query ==
    \E blockId \in BlockIds, reqId \in ReqIds :
        /\ Becomes(queries(World, blockId, reqId))
        /\ ret' = Ret("query", blockId, reqId, TRUE)
        /\ UNCHANGED <<now, ready>>

\* a view whose indexes are queried between unlink operations
NextQuery == OnCreate \/ Unlink \/ Query \/ ScrollToBlock \/ SelectBlock
SpecQuery == InitBlocks /\ [][NextQuery]_vars

NextBlocks == OnCreate \/ Link \/ Duplicate \/ ScrollToBlock \/ SelectBlock
SpecBlocks == InitBlocks /\ [][NextBlocks]_vars

\* ------------------------------------------------------------------------
\* Replacing the whole content of the view: the Toolbar's New Document and
\* Clear All (editor.commands.clearContent()) and the load of the saved
\* content on mount (editor.commands.setContent(savedContent)).  Both
\* commands dispatch one transaction that replaces the content of the doc
\* node; it carries no RequirementLinkingKey meta.
\* ------------------------------------------------------------------------
\* the document an empty content is parsed into (Document: content 'block+')
EmptyDocument ==
    <<[type |-> "paragraph", id |-> NoId, lr |-> 0, depth |-> 0, blockType |-> NoType]>>

\* the highest address in use
TopAddr(w) == CHOOSE a \in UsedAddrs(w) \cup {0} : \A b \in UsedAddrs(w) : b <= a

\* editor.commands.clearContent()
clearContent(w) == dispatch([w EXCEPT !.doc = EmptyDocument], TRUE, NoMeta, <<>>)

\* editor.commands.setContent(content), content parsing into the nodes
\* `kinds`: the arrays of the parsed attrs are new
setContent(w, kinds) ==
    LET base == TopAddr(w)
    IN  dispatch([w EXCEPT !.doc = DocOf(kinds, base),
                           !.heap = HeapWith(w.heap, kinds, base)],
                 TRUE, NoMeta, <<>>)

\* requirementsStore.clearRequirements
clearRequirements(w) == [w EXCEPT !.reqs = EmptyMap]

\* Toolbar.handleNewDocument, the confirm dialog accepted
handleNewDocument(w) == clearRequirements(clearContent(w))

\* Toolbar.handleClearAll, the confirm dialog accepted; sourcesEmpty: the
\* sources store holds no source
handleClearAll(w, sourcesEmpty) ==
    IF w.reqs = EmptyMap /\ sourcesEmpty THEN w
    ELSE clearContent(clearRequirements(w))

NewDocument ==
    /\ ready
    /\ Becomes(handleNewDocument(World))
    /\ ret' = Ret("new", NoId, "none", TRUE)
    /\ UNCHANGED <<now, ready>>

ClearAll ==
    \E sourcesEmpty \in BOOLEAN :
        /\ ready
        /\ Becomes(handleClearAll(World, sourcesEmpty))
        /\ ret' = Ret("clear", NoId, "none", ~(requirements = EmptyMap /\ sourcesEmpty))
        /\ UNCHANGED <<now, ready>>

\* contents that can have been saved: up to MaxSavedBlocks nodes
SavedKinds == UNION {[1..n -> NodeKinds] : n \in 0..MaxSavedBlocks}

\* the saved content is loaded into the view
LoadSaved ==
    \E kinds \in SavedKinds :
        /\ ready
        /\ UniqueIds(DocOf(kinds, 0))
        /\ Becomes(setContent(World, kinds))
        /\ ret' = Ret("load", NoId, "none", TRUE)
        /\ UNCHANGED <<now, ready>>

\* a view whose content is replaced between link operations
NextLoad == OnCreate \/ Link \/ NewDocument \/ ClearAll \/ LoadSaved
InitLoad == Init /\ Len(doc) <= MaxSavedBlocks

SpecLoad == InitLoad /\ [][NextLoad]_vars

\* ------------------------------------------------------------------------
\* The requirements store (zustand): requirements is a list of Requirement
\* records; here a map from the id of a record to its status and its
\* linkedBlockIds, the ids of the imported records being different.
\* ------------------------------------------------------------------------
\* the id handleEditorClick makes up for a block that is in no docBlock
\* ('block-' and a hash of the text of the block)
HashId == "block-0"
StoreBlockIds == BlockIds \cup {HashId}

\* a record as ImportModal.handleImport makes it
NewRequirement == [status |-> "unlinked", linkedBlockIds |-> <<>>]

importRequirements(w, ids) ==
    [w EXCEPT !.reqs = [r \in (DOMAIN @) \cup ids |->
                           IF r \in DOMAIN @ THEN @[r] ELSE NewRequirement]]

linkToBlock(w, reqId, blockId) ==
    [w EXCEPT !.reqs = [r \in DOMAIN @ |->
                           IF r = reqId
                           THEN [@[r] EXCEPT !.linkedBlockIds = Append(@, blockId),
                                             !.status = "linked"]
                           ELSE @[r]]]

unlinkFromBlock(w, reqId, blockId) ==
    [w EXCEPT !.reqs = [r \in DOMAIN @ |->
                           IF r = reqId
                           THEN [linkedBlockIds |->
                                     SelectSeq(@[r].linkedBlockIds, LAMBDA id : id # blockId),
                                 status |-> IF Len(@[r].linkedBlockIds) <= 1 THEN "unlinked"
                                            ELSE @[r].status]
                           ELSE @[r]]]

ImportRequirements ==
    \E ids \in (SUBSET ReqIds) \ {{}} :
        /\ ids \cap DOMAIN requirements = {}
        /\ Becomes(importRequirements(World, ids))
        /\ ret' = Ret("import", NoId, "none", TRUE)
        /\ UNCHANGED <<now, ready>>

ClearRequirements ==
    /\ Becomes(clearRequirements(World))
    /\ ret' = Ret("clearRequirements", NoId, "none", TRUE)
    /\ UNCHANGED <<now, ready>>

LinkToBlock ==
    \E reqId \in ReqIds, blockId \in StoreBlockIds :
        /\ reqId \in DOMAIN requirements => Len(requirements[reqId].linkedBlockIds) < MaxLinked
        /\ Becomes(linkToBlock(World, reqId, blockId))
        /\ ret' = Ret("linkToBlock", blockId, reqId, TRUE)
        /\ UNCHANGED <<now, ready>>

UnlinkFromBlock ==
    \E reqId \in ReqIds, blockId \in StoreBlockIds :
        /\ Becomes(unlinkFromBlock(World, reqId, blockId))
        /\ ret' = Ret("unlinkFromBlock", blockId, reqId, TRUE)
        /\ UNCHANGED <<now, ready>>

\* EditorController.getCurrentBlockId with the selection in node i: the id
\* of the innermost docBlock with a truthy id that node i is or is inside
\* (NoId: null)
getCurrentBlockId(w, i) ==
    LET around == {k \in DOMAIN w.doc :
                      /\ k = i \/ Inside(w.doc, k, i)
                      /\ IsDocBlock(w.doc[k]) /\ w.doc[k].id # NoId}
    IN  IF around = {} THEN NoId
        ELSE w.doc[CHOOSE k \in around : \A j \in around : j <= k].id

\* Editor.handleEditorClick in linking mode for reqId, the selection in node
\* i: an empty transaction, the controller's link (its result is not looked
\* at), then the store's linkToBlock
handleEditorClick(w, i, reqId, t1, t2) ==
    LET current == getCurrentBlockId(w, i)
        blockId == IF current = NoId THEN HashId ELSE current
        w1 == dispatch(w, FALSE, NoMeta, <<>>)
        res == linkRequirementToBlock(w1, blockId, reqId, t1, t2)
    IN  [w |-> linkToBlock(res.w, reqId, blockId), ok |-> res.ok, blockId |-> blockId]

\* EditorController.forceRefresh: an empty transaction
forceRefresh(w) == dispatch(w, FALSE, NoMeta, <<>>)

\* LeftSidebar.handleUnlink(reqId), the requirement holding a linked block
handleUnlink(w, reqId) ==
    LET blockId == w.reqs[reqId].linkedBlockIds[1]
    IN  forceRefresh(unlinkFromBlock(w, reqId, blockId))

\* a click in the editor while linking mode is on for a requirement of the
\* sidebar
EditorClick ==
    \E i \in DOMAIN doc, reqId \in DOMAIN requirements, t1 \in now..MaxNow :
      \E t2 \in t1..MaxNow :
        \E res \in {handleEditorClick(World, i, reqId, t1, t2)} :
            /\ ready
            /\ SubtreeEnd(doc, i) = i
            /\ Len(requirements[reqId].linkedBlockIds) < MaxLinked
            /\ Becomes(res.w)
            /\ ret' = Ret("click", res.blockId, reqId, res.ok)
            /\ now' = IF res.ok THEN t2 ELSE now
            /\ UNCHANGED ready

\* the unlink button of a requirement of the sidebar
SidebarUnlink ==
    \E reqId \in DOMAIN requirements :
        /\ ready
        /\ requirements[reqId].linkedBlockIds # <<>>
        /\ Becomes(handleUnlink(World, reqId))
        /\ ret' = Ret("sidebarUnlink", requirements[reqId].linkedBlockIds[1], reqId, TRUE)
        /\ UNCHANGED <<now, ready>>

\* a view created on a document without links, beside a store without
\* requirements
InitMirror ==
    /\ Init
    /\ Len(doc) <= MaxSavedBlocks
    /\ \A i \in DOMAIN doc : IsDocBlock(doc[i]) => heap[doc[i].lr] = <<>>

NextMirror == OnCreate \/ ImportRequirements \/ EditorClick \/ SidebarUnlink
SpecMirror == InitMirror /\ [][NextMirror]_vars

\* the store used on its own
NextStore == ImportRequirements \/ ClearRequirements \/ LinkToBlock \/ UnlinkFromBlock
SpecStore == InitIndex /\ [][NextStore]_vars

\* ------------------------------------------------------------------------
\* Undo and redo (StarterKit's history plugin, Toolbar.handleUndo/handleRedo).
\* A dispatched transaction that changes the document is recorded; undo and
\* redo dispatch a transaction that puts the recorded nodes back, with the
\* attrs objects they had.  None of these transactions carries the
\* RequirementLinkingKey meta, so onTransaction leaves the index alone.
\* ------------------------------------------------------------------------
\* the history plugin after a document-changing transaction dispatched on d
Recorded(h, d) == [undo |-> Append(h.undo, d), redo |-> <<>>]

undo(w) ==
    LET n == Len(w.hist.undo)
        w1 == [w EXCEPT !.doc = w.hist.undo[n],
                        !.hist = [undo |-> SubSeq(w.hist.undo, 1, n - 1),
                                  redo |-> Append(w.hist.redo, w.doc)]]
    IN  dispatch(w1, TRUE, NoMeta, <<>>)

redo(w) ==
    LET n == Len(w.hist.redo)
        w1 == [w EXCEPT !.doc = w.hist.redo[n],
                        !.hist = [undo |-> Append(w.hist.undo, w.doc),
                                  redo |-> SubSeq(w.hist.redo, 1, n - 1)]]
    IN  dispatch(w1, TRUE, NoMeta, <<>>)

\* the view when the history plugin holds on to the document a transaction
\* is about to replace
Recording == [World EXCEPT !.hist = Recorded(history, doc)]

\* linkRequirementToBlock in a view with history: its transaction is recorded
LinkTr ==
    \E blockId \in BlockIds, reqId \in ReqIds, t1 \in now..MaxNow :
      \E t2 \in t1..MaxNow :
        \E res \in {IF ready THEN linkRequirementToBlock(Recording, blockId, reqId, t1, t2)
                             ELSE [w |-> World, ok |-> FALSE]} :
            /\ res.ok => Len(history.undo) < MaxUndo
            /\ Becomes(IF res.ok THEN res.w ELSE World)
            /\ ret' = Ret("link", blockId, reqId, res.ok)
            /\ now' = IF res.ok THEN t2 ELSE now
            /\ UNCHANGED ready

UnlinkTr ==
    \E blockId \in BlockIds, reqId \in ReqIds :
        \E res \in {IF ready THEN unlinkRequirementFromBlock(Recording, blockId, reqId)
                             ELSE [w |-> World, ok |-> FALSE]} :
            /\ res.ok => Len(history.undo) < MaxUndo
            /\ Becomes(IF res.ok THEN res.w ELSE World)
            /\ ret' = Ret("unlink", blockId, reqId, res.ok)
            /\ UNCHANGED <<now, ready>>

Undo ==
    /\ ready
    /\ history.undo # <<>>
    /\ Becomes(undo(World))
    /\ ret' = Ret("undo", NoId, "none", TRUE)
    /\ UNCHANGED <<now, ready>>

Redo ==
    /\ ready
    /\ history.redo # <<>>
    /\ Becomes(redo(World))
    /\ ret' = Ret("redo", NoId, "none", TRUE)
    /\ UNCHANGED <<now, ready>>

NextUndo == OnCreate \/ LinkTr \/ UnlinkTr \/ Undo \/ Redo
\* a view with history, created on a small document
InitUndo == Init /\ Len(doc) <= MaxUndoBlocks

SpecUndo == InitUndo /\ [][NextUndo]_vars

\* The index used beside the document it was built from: the caller keeps the
\* document given to rebuildFromDocument, builds the index from it again and
\* calls applyTransactionUpdate for the blocks of the document, at one reading
\* of the clock.
ApplyUpdateKeepingDocument ==
    \E blockId \in BlockIds \cap IdsOf(doc), removedLinks \in SeqsUpTo(ReqIds, MaxMeta),
       addedLinks \in SeqsUpTo(AddedLinkSet, MaxMeta) :
        /\ ready
        /\ Becomes(applyTransactionUpdate(World,
                      [blockId |-> blockId, addedLinks |-> addedLinks,
                       removedLinks |-> removedLinks],
                      [k \in DOMAIN addedLinks |-> now]))
        /\ ret' = Ret("update", blockId, "none", TRUE)
        /\ UNCHANGED <<now, ready>>

NextSnapshot == OnCreate \/ Rebuild \/ ApplyUpdateKeepingDocument

SpecSnapshot == InitUndo /\ [][NextSnapshot]_vars

\* ------------------------------------------------------------------------
\* Persistence: commitSnapshot on the Dexie tables documents and blockMeta.
\* A Dexie transaction is atomic: when an operation inside it rejects, the
\* transaction is aborted, nothing it wrote is kept and the promise rejects.
\* ------------------------------------------------------------------------
DocIds == {"d1", "d2"}
Contents == {"c1", "c2"}        \* JSON strings of a document
MetaLinks == {<<>>, <<"r1">>}   \* linkedRequirements of a BlockMetaRecord

\* DocumentRecord (title and the two dates are written with the content)
DocumentRecords == [id : DocIds, content : Contents]

\* BlockMetaRecord; its id is the composite of docId and blockId
BlockMetaRecord(docId, blockId, links) ==
    [id |-> <<docId, blockId>>, docId |-> docId, blockId |-> blockId,
     linkedRequirements |-> links]

BlockMetaRecords ==
    {BlockMetaRecord(d, b, l) : d \in DocIds, b \in BlockIds, l \in MetaLinks}

\* Table.bulkPut(records): put one after the other
RECURSIVE bulkPut(_, _, _)
bulkPut(table, records, i) ==
    IF i > Len(records) THEN table
    ELSE bulkPut(MapSet(table, records[i].id, records[i]), records, i + 1)

\* Table.bulkDelete(keys)
bulkDelete(table, keys) == [k \in (DOMAIN table) \ keys |-> table[k]]

\* the steps of commitSnapshot that can reject
FailSteps == 1..4
NoFailure == 0

\* mutant of commitSnapshot: nothing is swept
commitWithoutSweep(w, prepared, failAt) ==
    LET documents == MapSet(w.db.documents, prepared.docRecord.id, prepared.docRecord)
        blockMeta == bulkPut(w.db.blockMeta, prepared.metaRecords, 1)
    IN  IF failAt \in 1..3
        THEN [w |-> w, ok |-> FALSE, stale |-> {}]
        ELSE [w |-> [w EXCEPT !.db = [documents |-> documents, blockMeta |-> blockMeta]],
              ok |-> TRUE, stale |-> {}]

\* mutant of commitSnapshot: the sweep looks at the records of every document
commitUnscoped(w, prepared, failAt) ==
    LET documents == MapSet(w.db.documents, prepared.docRecord.id, prepared.docRecord)
        blockMeta == bulkPut(w.db.blockMeta, prepared.metaRecords, 1)
        staleIds == {k \in DOMAIN blockMeta :
                        blockMeta[k].blockId \notin prepared.presentBlockIds}
    IN  IF failAt \in 1..3 \/ (failAt = 4 /\ staleIds # {})
        THEN [w |-> w, ok |-> FALSE, stale |-> {}]
        ELSE [w |-> [w EXCEPT !.db = [documents |-> documents,
                                      blockMeta |-> bulkDelete(blockMeta, staleIds)]],
              ok |-> TRUE, stale |-> staleIds]

\* mutant of commitSnapshot: the sweep deletes the present blocks
commitSweepingPresent(w, prepared, failAt) ==
    LET docId == prepared.docRecord.id
        documents == MapSet(w.db.documents, docId, prepared.docRecord)
        blockMeta == bulkPut(w.db.blockMeta, prepared.metaRecords, 1)
        staleIds == {k \in DOMAIN blockMeta :
                        /\ blockMeta[k].docId = docId
                        /\ blockMeta[k].blockId \in prepared.presentBlockIds}
    IN  IF failAt \in 1..3 \/ (failAt = 4 /\ staleIds # {})
        THEN [w |-> w, ok |-> FALSE, stale |-> {}]
        ELSE [w |-> [w EXCEPT !.db = [documents |-> documents,
                                      blockMeta |-> bulkDelete(blockMeta, staleIds)]],
              ok |-> TRUE, stale |-> staleIds]

\* mutant of commitSnapshot: no transaction, what was written before the
\* failing step stays
commitWithoutTransaction(w, prepared, failAt) ==
    LET docId == prepared.docRecord.id
        documents == MapSet(w.db.documents, docId, prepared.docRecord)
        blockMeta == bulkPut(w.db.blockMeta, prepared.metaRecords, 1)
        staleIds == {k \in DOMAIN blockMeta :
                        /\ blockMeta[k].docId = docId
                        /\ blockMeta[k].blockId \notin prepared.presentBlockIds}
    IN  IF failAt = 1 THEN [w |-> w, ok |-> FALSE, stale |-> {}]
        ELSE IF failAt = 2
        THEN [w |-> [w EXCEPT !.db.documents = documents], ok |-> FALSE, stale |-> {}]
        ELSE IF failAt = 3 \/ (failAt = 4 /\ staleIds # {})
        THEN [w |-> [w EXCEPT !.db = [documents |-> documents, blockMeta |-> blockMeta]],
              ok |-> FALSE, stale |-> {}]
        ELSE [w |-> [w EXCEPT !.db = [documents |-> documents,
                                      blockMeta |-> bulkDelete(blockMeta, staleIds)]],
              ok |-> TRUE, stale |-> staleIds]

\* commitSnapshot(prepared) when step failAt rejects (NoFailure: none does).
\* ok: the promise resolved; stale: the ids it deleted.
commitSnapshot(w, prepared, failAt) ==
    LET docId == prepared.docRecord.id
        \* 1. Write doc
        documents == MapSet(w.db.documents, docId, prepared.docRecord)
        \* 2. Upsert present blocks
        blockMeta == bulkPut(w.db.blockMeta, prepared.metaRecords, 1)
        \* 3. Delete absent blocks
        allMeta == {k \in DOMAIN blockMeta : blockMeta[k].docId = docId}
        staleIds == {k \in allMeta : blockMeta[k].blockId \notin prepared.presentBlockIds}
    IN  IF failAt \in 1..3 \/ (failAt = 4 /\ staleIds # {})
        THEN [w |-> w, ok |-> FALSE, stale |-> {}]
        ELSE [w |-> [w EXCEPT !.db = [documents |-> documents,
                                      blockMeta |-> bulkDelete(blockMeta, staleIds)]],
              ok |-> TRUE, stale |-> staleIds]

\* The snapshot prepared for the blocks P of a document: docRecord, one
\* metadata record per present block, presentBlockIds = P
prepareSnapshot(docRecord, P, links) ==
    LET present == SelectSeq(BlockOrder, LAMBDA b : b \in P)
    IN  [docRecord |-> docRecord,
         metaRecords |-> [i \in DOMAIN present |->
                             BlockMetaRecord(docRecord.id, present[i], links[present[i]])],
         presentBlockIds |-> P]

\* what the caller of commitSnapshot sees: a resolved promise for the commit
\* of the blocks `present` of document docId (stale: the ids swept), or a
\* rejection
CommitRet(op, prepared, failAt, res) ==
    IF res.ok
    THEN [op |-> op, blockId |-> NoId, reqId |-> "none", ok |-> TRUE,
          docId |-> prepared.docRecord.id, present |-> prepared.presentBlockIds,
          failAt |-> failAt, stale |-> res.stale]
    ELSE [op |-> op, blockId |-> NoId, reqId |-> "none", ok |-> FALSE,
          docId |-> NoId, present |-> {}, failAt |-> failAt, stale |-> {}]

\* commitSnapshot called with any prepared object
CommitSnapshot ==
    \E docRecord \in DocumentRecords, P \in SUBSET BlockIds,
       metaRecords \in SeqsUpTo(BlockMetaRecords, MaxMetaRecords),
       failAt \in {NoFailure} \cup FailSteps :
        LET prepared == [docRecord |-> docRecord, metaRecords |-> metaRecords,
                         presentBlockIds |-> P]
        IN  \E res \in {commitSnapshot(World, prepared, failAt)} :
                /\ Becomes(res.w)
                /\ ret' = CommitRet("commit", prepared, failAt, res)
                /\ UNCHANGED <<now, ready>>

\* commitSnapshot called with a snapshot prepared for the present blocks
SaveSnapshot ==
    \E docRecord \in DocumentRecords, P \in SUBSET BlockIds,
       failAt \in {NoFailure} \cup FailSteps :
      \E links \in [P -> MetaLinks] :
        LET prepared == prepareSnapshot(docRecord, P, links)
        IN  \E res \in {commitSnapshot(World, prepared, failAt)} :
                /\ Becomes(res.w)
                /\ ret' = CommitRet("save", prepared, failAt, res)
                /\ UNCHANGED <<now, ready>>

NextCommit == CommitSnapshot \/ SaveSnapshot
SpecCommit == InitIndex /\ [][NextCommit]_vars

\* ------------------------------------------------------------------------
\* Moving a block.  A docBlock is draggable: dropping it elsewhere is one
\* transaction that takes the node out and puts the same node (the same
\* attrs object, hence the same linkedRequirements array) in at the new
\* place.  Node i and the sibling that follows it change places.
\* ------------------------------------------------------------------------
NextSibling(d, i) == SubtreeEnd(d, i) + 1

CanMove(d, i) ==
    /\ NextSibling(d, i) \in DOMAIN d
    /\ d[NextSibling(d, i)].depth = d[i].depth

Moved(d, i) ==
    LET j == NextSibling(d, i)
    IN  SubSeq(d, 1, i - 1) \o SubSeq(d, j, SubtreeEnd(d, j)) \o SubSeq(d, i, j - 1)
          \o SubSeq(d, SubtreeEnd(d, j) + 1, Len(d))

moveBlock(w, i) == dispatch([w EXCEPT !.doc = Moved(w.doc, i)], TRUE, NoMeta, <<>>)

Move ==
    \E i \in DOMAIN doc :
        /\ ready
        /\ CanMove(doc, i)
        /\ Becomes(moveBlock(World, i))
        /\ ret' = Ret("move", doc[i].id, "none", TRUE)
        /\ UNCHANGED <<now, ready>>

\* a view whose blocks are linked, duplicated and moved
NextMove == OnCreate \/ Link \/ Unlink \/ Duplicate \/ Move
SpecMove == Init /\ [][NextMove]_vars

\* the same, without duplication
NextReorder == OnCreate \/ Link \/ Unlink \/ Move
SpecReorder == Init /\ [][NextReorder]_vars

\* ------------------------------------------------------------------------
\* An editor view with history whose DocBlockWrapper is enabled or not: raw
\* blocks are added, blocks are deleted, duplicated, moved, linked and
\* unlinked, and the transactions are undone and redone.
\* ------------------------------------------------------------------------
RawNode(type) == [type |-> type, id |-> NoId, lr |-> 0, depth |-> 0, blockType |-> NoType]

\* the nodes such a view is created with: raw nodes, one of a type that is
\* not wrapped, and docBlocks with an id
WrapKinds ==
    {[type |-> t, id |-> NoId, links |-> <<>>, depth |-> 0, blockType |-> NoType] :
        t \in {"paragraph", "heading", "horizontalRule"}}
      \cup {[type |-> "docBlock", id |-> b, links |-> l, depth |-> 0,
              blockType |-> "paragraph"] : b \in BlockIds, l \in NestedLists}

InitWrap ==
    \E kinds \in UNION {[1..n -> WrapKinds] : n \in 1..MaxWrapBlocks}, enabled \in BOOLEAN :
        /\ doc = DocOf(kinds, 0)
        /\ UniqueIds(doc)
        /\ heap = HeapWith(EmptyHeap, kinds, 0)
        /\ reqToBlocks = EmptyMap
        /\ blockToReqs = EmptyMap
        /\ now = 0
        /\ ready = FALSE
        /\ ret = NoRet
        /\ history = NoHistory
        /\ db = EmptyDb
        /\ blockIndex = buildBlockIndex([doc |-> doc, heap |-> heap])
        /\ log = NoLog
        /\ requirements = EmptyMap
        /\ locks = EmptyMap
        /\ views = EmptyMap
        /\ page = NoPage
        /\ lastSaveTime = 0
        /\ options = [enabled |-> enabled]

\* insertContentAt(pos + node.nodeSize, { type: 'paragraph' })
handleAddBlock(w, i) ==
    dispatch([w EXCEPT !.doc = InsertAfter(w.doc, i, <<RawNode("paragraph")>>)],
             TRUE, NoMeta, <<>>)

\* deleteRange({ from: pos, to: pos + node.nodeSize }); a document that
\* lost its last node holds an empty paragraph
Deleted(d, i) ==
    LET rest == SubSeq(d, 1, i - 1) \o SubSeq(d, SubtreeEnd(d, i) + 1, Len(d))
    IN  IF rest = <<>> THEN EmptyDocument ELSE rest

handleDelete(w, i) == dispatch([w EXCEPT !.doc = Deleted(w.doc, i)], TRUE, NoMeta, <<>>)

CanRecord == Len(history.undo) < MaxWrapUndo

AddBlock ==
    \E i \in DOMAIN doc :
        /\ ready /\ CanRecord
        /\ doc[i].depth = 0
        /\ Len(doc) < MaxWrapBlocks
        /\ Becomes(handleAddBlock(Recording, i))
        /\ ret' = Ret("addBlock", doc[i].id, "none", TRUE)
        /\ UNCHANGED <<now, ready>>

DeleteBlock ==
    \E i \in DOMAIN doc :
        /\ ready /\ CanRecord
        /\ doc[i].depth = 0
        /\ Becomes(handleDelete(Recording, i))
        /\ ret' = Ret("delete", doc[i].id, "none", TRUE)
        /\ UNCHANGED <<now, ready>>

DuplicateBlock ==
    \E i \in DOMAIN doc :
        /\ ready /\ CanRecord
        /\ doc[i].depth = 0
        /\ Len(doc) + (SubtreeEnd(doc, i) - i + 1) <= MaxWrapBlocks
        /\ Becomes(handleDuplicate(Recording, i))
        /\ ret' = Ret("duplicate", doc[i].id, "none", TRUE)
        /\ UNCHANGED <<now, ready>>

MoveBlock ==
    \E i \in DOMAIN doc :
        /\ ready /\ CanRecord
        /\ CanMove(doc, i)
        /\ Becomes(moveBlock(Recording, i))
        /\ ret' = Ret("move", doc[i].id, "none", TRUE)
        /\ UNCHANGED <<now, ready>>

LinkBlock ==
    \E blockId \in BlockIds :
        \E res \in {IF ready THEN linkRequirementToBlock(Recording, blockId, "r1", now, now)
                             ELSE [w |-> World, ok |-> FALSE]} :
            /\ res.ok => CanRecord
            /\ Becomes(IF res.ok THEN res.w ELSE World)
            /\ ret' = Ret("link", blockId, "r1", res.ok)
            /\ UNCHANGED <<now, ready>>

UnlinkBlock ==
    \E blockId \in BlockIds :
        \E res \in {IF ready THEN unlinkRequirementFromBlock(Recording, blockId, "r1")
                             ELSE [w |-> World, ok |-> FALSE]} :
            /\ res.ok => CanRecord
            /\ Becomes(IF res.ok THEN res.w ELSE World)
            /\ ret' = Ret("unlink", blockId, "r1", res.ok)
            /\ UNCHANGED <<now, ready>>

\* a transaction that leaves the document as it is
SelectFirst ==
    \E res \in {selectAt(World, 0)} :
        /\ ready
        /\ Becomes(res.w)
        /\ ret' = Ret("select", NoId, "none", res.ok)
        /\ UNCHANGED <<now, ready>>

NextWrap ==
    OnCreate \/ AddBlock \/ DeleteBlock \/ DuplicateBlock \/ MoveBlock \/ LinkBlock
        \/ UnlinkBlock \/ SelectFirst \/ Undo \/ Redo
SpecWrap == InitWrap /\ [][NextWrap]_vars

\* ------------------------------------------------------------------------
\* A further editor view in the same runtime.  linkIndex is one object of
\* the LinkIndex module; addStorage of the extension hands that object to
\* every editor, and onCreate of every editor rebuilds it from the document
\* of that editor.  The arrays the rebuilt index refers to are those of the
\* nodes of the further view, whose document is not followed any further.
\* ------------------------------------------------------------------------
onCreateOther(w, kinds) ==
    LET base == TopAddr(w)
        other == [w EXCEPT !.doc = DocOf(kinds, base),
                           !.heap = HeapWith(w.heap, kinds, base)]
    IN  [rebuildFromDocument(other) EXCEPT !.doc = w.doc]

\* a further editor view is created on a saved document
CreateOtherView ==
    \E kinds \in SavedKinds :
        /\ ready
        /\ UniqueIds(DocOf(kinds, 0))
        /\ Becomes(onCreateOther(World, kinds))
        /\ ret' = Ret("createOther", NoId, "none", TRUE)
        /\ UNCHANGED <<now, ready>>

NextViews == OnCreate \/ Link \/ Unlink \/ CreateOtherView
SpecViews == InitLoad /\ [][NextViews]_vars

\* ------------------------------------------------------------------------
\* Page lifecycle flush.  An EventTarget keeps a list of listeners;
\* addEventListener appends a listener unless the list holds the same
\* callback for the same type already, removeEventListener takes it out, and
\* an event calls the listeners of its type in order.  A function
\* expression makes a new callback each time it is evaluated: the callbacks
\* of registration n are [kind, reg |-> n, fn]; flushNow passed as it is, is
\* the callback [kind |-> "flushNow", reg |-> 0, fn].
\* ------------------------------------------------------------------------
FlushCallbacks == {"flushA", "flushB"}

\* a callback is called
Called(w, name) == [w EXCEPT !.log.calls = Append(@, name)]

Range(list) == {list[k] : k \in DOMAIN list}

addEventListener(list, callback) ==
    IF callback \in Range(list) THEN list ELSE Append(list, callback)

removeEventListener(list, callback) == SelectSeq(list, LAMBDA c : c # callback)

Listener(kind, reg, fn) == [kind |-> kind, reg |-> reg, fn |-> fn]

\* registerPageLifecycleFlush(flushNow) of the page lifecycle module: three
\* new handlers; the registration is the next one of the page
registerPageLifecycleFlush(w, flushNow) ==
    LET n == w.page.registered + 1
    IN  [w EXCEPT
           !.page.visibilitychange =
               addEventListener(@, Listener("handleVisibilityChange", n, flushNow)),
           !.page.pagehide = addEventListener(@, Listener("handlePageHide", n, flushNow)),
           !.page.beforeunload =
               addEventListener(@, Listener("handleBeforeUnload", n, flushNow)),
           !.page.registered = n,
           !.page.live = Append(@, [reg |-> n, fn |-> flushNow, cleanup |-> TRUE])]

\* the function registration n of registerPageLifecycleFlush returned
cleanup(w, n, flushNow) ==
    [w EXCEPT
       !.page.visibilitychange =
           removeEventListener(@, Listener("handleVisibilityChange", n, flushNow)),
       !.page.pagehide = removeEventListener(@, Listener("handlePageHide", n, flushNow)),
       !.page.beforeunload =
           removeEventListener(@, Listener("handleBeforeUnload", n, flushNow)),
       !.page.live = SelectSeq(@, LAMBDA r : r.reg # n)]

\* registerPageLifecycleFlush(flushNow) of the storage utilities: a new
\* arrow function for visibilitychange, flushNow itself for pagehide and
\* beforeunload; it returns nothing
registerPageLifecycleFlushUtil(w, flushNow) ==
    LET n == w.page.registered + 1
    IN  [w EXCEPT
           !.page.visibilitychange =
               addEventListener(@, Listener("handleVisibilityChange", n, flushNow)),
           !.page.pagehide = addEventListener(@, Listener("flushNow", 0, flushNow)),
           !.page.beforeunload = addEventListener(@, Listener("flushNow", 0, flushNow)),
           !.page.registered = n,
           !.page.live = Append(@, [reg |-> n, fn |-> flushNow, cleanup |-> FALSE])]

\* a listener that flushes whatever the visibility state is
invokeAlways(w, callback) == Called(w, callback.fn)

\* a listener is called
invoke(w, callback) ==
    IF callback.kind = "handleVisibilityChange"
    THEN IF w.page.visibilityState = "hidden" THEN Called(w, callback.fn) ELSE w
    ELSE Called(w, callback.fn)

\* an event: the listeners of its type at the time it is dispatched, in order
RECURSIVE dispatchEvent(_, _, _)
dispatchEvent(w, list, k) ==
    IF k > Len(list) THEN w ELSE dispatchEvent(invoke(w, list[k]), list, k + 1)

RegisterPageLifecycleFlush ==
    \E flushNow \in FlushCallbacks :
        /\ page.registered < MaxFlushHandlers
        /\ Becomes(registerPageLifecycleFlush(World, flushNow))
        /\ ret' = Ret("registerFlush", NoId, "none", TRUE)
        /\ UNCHANGED <<now, ready>>

RegisterPageLifecycleFlushUtil ==
    \E flushNow \in FlushCallbacks :
        /\ page.registered < MaxFlushHandlers
        /\ Becomes(registerPageLifecycleFlushUtil(World, flushNow))
        /\ ret' = Ret("registerFlushUtil", NoId, "none", TRUE)
        /\ UNCHANGED <<now, ready>>

\* the cleanup function of a registration that returned one is called
CleanupFlush ==
    \E k \in DOMAIN page.live :
        /\ page.live[k].cleanup
        /\ Becomes(cleanup(World, page.live[k].reg, page.live[k].fn))
        /\ ret' = Ret("cleanupFlush", NoId, "none", TRUE)
        /\ UNCHANGED <<now, ready>>

\* the page is hidden or shown
PageVisibilityChange ==
    LET state == IF page.visibilityState = "visible" THEN "hidden" ELSE "visible"
        w == [World EXCEPT !.page.visibilityState = state]
    IN  /\ Becomes(dispatchEvent(w, page.visibilitychange, 1))
        /\ ret' = Ret("visibilitychange", NoId, "none", state = "hidden")
        /\ UNCHANGED <<now, ready>>

PageHide ==
    /\ Becomes(dispatchEvent(World, page.pagehide, 1))
    /\ ret' = Ret("pagehide", NoId, "none", TRUE)
    /\ UNCHANGED <<now, ready>>

BeforeUnload ==
    /\ Becomes(dispatchEvent(World, page.beforeunload, 1))
    /\ ret' = Ret("beforeunload", NoId, "none", TRUE)
    /\ UNCHANGED <<now, ready>>

\* a page whose flush handlers are registered and cleaned up between events
NextFlush ==
    RegisterPageLifecycleFlush \/ RegisterPageLifecycleFlushUtil \/ CleanupFlush
        \/ PageVisibilityChange \/ PageHide \/ BeforeUnload
SpecFlush == InitIndex /\ [][NextFlush]_vars

\* ------------------------------------------------------------------------
\* Forced flush.  lastSaveTime is a variable of the storage utilities, set
\* to Date.now() when the module is loaded.  maybeForceFlush reads the clock
\* twice: for the comparison (t1) and, after flushNow returned, for the
\* time it records (t2).
\* ------------------------------------------------------------------------
MAX_SAVE_INTERVAL == 10000

\* times between two calls, and times flushNow takes, in ms
Elapsed == {0, 2500, 5000}
FlushTimes == {0, 1}

\* a forced flush that starts at the interval
maybeForceFlushAtInterval(w, flushNow, t1, t2) ==
    IF t1 - w.lastSaveTime >= MAX_SAVE_INTERVAL
    THEN [Called(w, flushNow) EXCEPT !.lastSaveTime = t2, !.log.at = t1]
    ELSE [w EXCEPT !.log.at = t1]

\* a forced flush that does not record the time
maybeForceFlushUnrecorded(w, flushNow, t1, t2) ==
    IF t1 - w.lastSaveTime > MAX_SAVE_INTERVAL
    THEN [Called(w, flushNow) EXCEPT !.log.at = t1]
    ELSE [w EXCEPT !.log.at = t1]

maybeForceFlush(w, flushNow, t1, t2) ==
    IF t1 - w.lastSaveTime > MAX_SAVE_INTERVAL
    THEN [Called(w, flushNow) EXCEPT !.lastSaveTime = t2, !.log.at = t1]
    ELSE [w EXCEPT !.log.at = t1]

resetSaveTime(w, t) == [w EXCEPT !.lastSaveTime = t, !.log.at = t]

\* maybeForceFlush is called, at most MaxCallPeriod after the call before
MaybeForceFlush ==
    \E flushNow \in FlushCallbacks, d \in Elapsed, e \in FlushTimes :
        LET t1 == now + d
            flushes == t1 - lastSaveTime > MAX_SAVE_INTERVAL
            t2 == IF flushes THEN t1 + e ELSE t1
        IN  /\ t2 <= MaxClock
            /\ Becomes(maybeForceFlush(World, flushNow, t1, t2))
            /\ now' = t2
            /\ ret' = Ret("maybeForceFlush", NoId, flushNow, flushes)
            /\ UNCHANGED ready

\* a save elsewhere records its time
ResetSaveTime ==
    /\ Becomes(resetSaveTime(World, now))
    /\ ret' = Ret("resetSaveTime", NoId, "none", TRUE)
    /\ UNCHANGED <<now, ready>>

NextForce == MaybeForceFlush \/ ResetSaveTime
SpecForce == InitIndex /\ [][NextForce]_vars

\* ------------------------------------------------------------------------
\* Cross-session coordination: views (tabs) of the application on the same
\* database, the table locks (primary key docId) and the lease a view needs
\* to write a document.  registerActivityRefresh is the code's; what its two
\* callbacks do, how a lease is acquired and what a view in observer mode
\* may do follow the specification of the lease: a compare-and-swap on an
\* expiring record, refreshed when visibility is regained.
\* ------------------------------------------------------------------------
Tabs == {"t1", "t2"}

\* time a lease lasts from the moment it is written
LeaseDuration == 2

LockRecord(docId, tabId, expiresAt) ==
    [docId |-> docId, tabId |-> tabId, expiresAt |-> expiresAt]

\* a view that has opened document docId: it may not write yet, it has
\* registered nothing, its page is visible
NewView(docId) ==
    [docId |-> docId, mode |-> "observer", expiresAt |-> 0, wrote |-> FALSE,
     visible |-> TRUE, registered |-> 0]

\* view t owns the lock record of its document
OwnsRecord(w, t) ==
    LET d == w.views[t].docId
    IN  d \in DOMAIN w.locks /\ w.locks[d].tabId = t

\* the lease written for view t at `time`
Leased(w, t, time) ==
    LET d == w.views[t].docId
    IN  [w EXCEPT !.locks = MapSet(@, d, LockRecord(d, t, time + LeaseDuration)),
                  !.views[t].mode = "owner",
                  !.views[t].expiresAt = time + LeaseDuration,
                  !.views[t].wrote = IF w.views[t].mode = "owner" /\ OwnsRecord(w, t)
                                     THEN @ ELSE FALSE]

\* acquire that takes the record whoever holds it
acquireStealing(w, t, time) == Leased(w, t, time)

\* a view asks for the lease of its document: it gets it when there is no
\* record, when the record has expired or when the record is its own
acquireLease(w, t, time) ==
    LET d == w.views[t].docId
    IN  IF d \notin DOMAIN w.locks \/ w.locks[d].expiresAt <= time \/ w.locks[d].tabId = t
        THEN Leased(w, t, time)
        ELSE [w EXCEPT !.views[t].mode = "observer"]

\* recheckOwnership: a view whose record was taken goes to observer mode
recheckOwnership(w, t, time) ==
    IF OwnsRecord(w, t) THEN Called(w, "recheckOwnership")
    ELSE [Called(w, "recheckOwnership") EXCEPT !.views[t].mode = "observer"]

\* refreshLease: a view in owner mode writes its record with a new expiry
\* (whether the record was taken is what recheckOwnership, called just
\* before, has looked at)
refreshLease(w, t, time) ==
    IF w.views[t].mode = "owner"
    THEN Leased(Called(w, "refreshLease"), t, time)
    ELSE Called(w, "refreshLease")

\* a listener that refreshes the lease without the re-check
activityWithoutRecheck(w, t, time) ==
    IF w.views[t].visible THEN refreshLease(w, t, time) ELSE w

\* a listener that refreshes the lease before the re-check
activityRefreshFirst(w, t, time) ==
    IF w.views[t].visible
    THEN recheckOwnership(refreshLease(w, t, time), t, time)
    ELSE w

\* handleVisibilityChange of registerActivityRefresh; the two callbacks run
\* to their end one after the other
handleActivityChange(w, t, time) ==
    IF w.views[t].visible
    THEN refreshLease(recheckOwnership(w, t, time), t, time)
    ELSE w

\* the listeners of the n registrations of a view run one after the other
RECURSIVE RunActivity(_, _, _, _)
RunActivity(w, t, time, n) ==
    IF n = 0 THEN w ELSE RunActivity(handleActivityChange(w, t, time), t, time, n - 1)

LeaseRet(op, tab, ok) ==
    [op |-> op, blockId |-> NoId, reqId |-> "none", ok |-> ok, tab |-> tab]

\* a tab opens a document
OpenView ==
    \E t \in Tabs \ DOMAIN views, d \in DocIds :
        /\ Becomes([World EXCEPT !.views = MapSet(@, t, NewView(d))])
        /\ ret' = LeaseRet("open", t, TRUE)
        /\ UNCHANGED <<now, ready>>

AcquireLease ==
    \E t \in DOMAIN views :
        \E w \in {acquireLease(World, t, now)} :
            /\ Becomes(w)
            /\ ret' = LeaseRet("acquire", t, w.views[t].mode = "owner")
            /\ UNCHANGED <<now, ready>>

\* registerActivityRefresh(refreshLease, recheckOwnership)
RegisterActivityRefresh ==
    \E t \in DOMAIN views :
        /\ views[t].registered < MaxRegistrations
        /\ Becomes([World EXCEPT !.views[t].registered = @ + 1])
        /\ ret' = LeaseRet("register", t, TRUE)
        /\ UNCHANGED <<now, ready>>

\* the function registerActivityRefresh returned is called
CleanupActivityRefresh ==
    \E t \in DOMAIN views :
        /\ views[t].registered > 0
        /\ Becomes([World EXCEPT !.views[t].registered = @ - 1])
        /\ ret' = LeaseRet("cleanup", t, TRUE)
        /\ UNCHANGED <<now, ready>>

\* the page of a view is hidden or shown: visibilityState changes and the
\* visibilitychange event is dispatched to the listeners
VisibilityChange ==
    \E t \in DOMAIN views :
        LET w == [World EXCEPT !.views[t].visible = ~@]
        IN  /\ Becomes(RunActivity(w, t, now, views[t].registered))
            /\ ret' = LeaseRet("visibilitychange", t, ~views[t].visible)
            /\ UNCHANGED <<now, ready>>

\* a view in owner mode commits its document
CommitMutation ==
    \E t \in DOMAIN views, content \in Contents :
        LET prepared == [docRecord |-> [id |-> views[t].docId, content |-> content],
                         metaRecords |-> <<>>, presentBlockIds |-> {}]
            res == commitSnapshot(World, prepared, NoFailure)
        IN  /\ views[t].mode = "owner"
            /\ Becomes([res.w EXCEPT !.views[t].wrote = TRUE])
            /\ ret' = LeaseRet("write", t, TRUE)
            /\ UNCHANGED <<now, ready>>

\* time passes
Tick ==
    /\ now < MaxLeaseTime
    /\ now' = now + 1
    /\ Becomes(World)
    /\ ret' = LeaseRet("tick", "none", TRUE)
    /\ UNCHANGED ready

\* views that ask for the lease of their document, write, and are hidden
\* and shown again
NextLease ==
    OpenView \/ RegisterActivityRefresh \/ AcquireLease \/ VisibilityChange
        \/ CommitMutation \/ Tick
SpecLease == InitIndex /\ [][NextLease]_vars

\* views that register and clean up their activity refresh
NextActivity ==
    OpenView \/ RegisterActivityRefresh \/ CleanupActivityRefresh \/ AcquireLease
        \/ VisibilityChange \/ Tick
SpecActivity == InitIndex /\ [][NextActivity]_vars

\* ------------------------------------------------------------------------
\* Properties
\* ------------------------------------------------------------------------
\* the docBlocks of a document that carry an id
Blocks(w) == {i \in DOMAIN w.doc : IsDocBlock(w.doc[i]) /\ w.doc[i].id # NoId}
LinksOf(w, i) == w.heap[w.doc[i].lr]

InverseMaps(w) ==
    \A r \in ReqIds, b \in BlockIds :
        b \in getBlocksForRequirement(w, r) <=> r \in ReqIdsOf(getRequirementsForBlock(w, b))

\* C1: from an empty LinkIndex, or one rebuilt from a document with unique
\* block ids, after any applyTransactionUpdate calls the two maps are exact
\* inverses: b is in reqToBlocks[r] iff a record of blockToReqs[b] has reqId r.
C1_InverseAfterUpdates ==
    /\ DOMAIN reqToBlocks \subseteq ReqIds
    /\ DOMAIN blockToReqs \subseteq BlockIds
    /\ InverseMaps(World)

\* an update has left one requirement linked to both blocks
C1_Witness ==
    /\ ret.op = "update"
    /\ \E r \in ReqIds : getBlocksForRequirement(World, r) = BlockIds
    /\ \E b \in BlockIds : Len(getRequirementsForBlock(World, b)) = 2

\* C2: in every state of an editor session (link, unlink, duplication that
\* copies id and linkedRequirements, later rebuilds) the two maps are exact
\* inverses of each other.
C2_InverseInSession == ready => InverseMaps(World)

\* what rebuildFromDocument of the current document would give
Fresh == rebuildFromDocument(World)

\* C3: after rebuildFromDocument(D) and link/unlink operations applied
\* through the incremental path, the live index has the same
\* getTotalLinkCount() and the same getBlocksForRequirement(r), for every r,
\* as an index rebuilt from the document the operations have produced.
C3_IncrementalIsRebuild ==
    ready =>
        /\ getTotalLinkCount(World) = getTotalLinkCount(Fresh)
        /\ \A r \in ReqIds :
              getBlocksForRequirement(World, r) = getBlocksForRequirement(Fresh, r)

\* ids of the docBlocks of the document whose linkedRequirements holds r
BlocksLinking(w, r) == {w.doc[i].id : i \in {j \in Blocks(w) : r \in ReqIdsOf(LinksOf(w, j))}}

\* C4: after rebuildFromDocument(D), whatever the index held before,
\* getBlocksForRequirement(r) is the set of ids of the docBlocks of D whose
\* linkedRequirements contains r; a block with an empty list has no entry;
\* an empty document gives a total of 0 and a block absent from D is reported
\* for no requirement.
C4_RebuildMatchesDocument ==
    ret.op = "rebuild" =>
        /\ \A r \in ReqIds : getBlocksForRequirement(World, r) = BlocksLinking(World, r)
        /\ \A i \in Blocks(World) :
              LinksOf(World, i) = <<>> =>
                  /\ doc[i].id \notin DOMAIN blockToReqs
                  /\ ~hasLinks(World, doc[i].id)
                  /\ getLinkCount(World, doc[i].id) = 0
        /\ (doc = <<>> => getTotalLinkCount(World) = 0)
        /\ \A b \in BlockIds :
              (\A i \in Blocks(World) : doc[i].id # b) =>
                  \A r \in ReqIds : b \notin getBlocksForRequirement(World, r)

\* the two maps by value
Snapshot(w) ==
    [reqToBlocks |-> w.reqToBlocks,
     blockToReqs |-> [b \in DOMAIN w.blockToReqs |-> w.heap[w.blockToReqs[b]]]]

\* C5: rebuildFromDocument is idempotent: a second rebuildFromDocument(D)
\* right after the first leaves both maps equal to what they were.
C5_RebuildIdempotent ==
    ret.op = "rebuild" => Snapshot(rebuildFromDocument(World)) = Snapshot(World)

\* a rebuild that indexed two blocks sharing a requirement
C5_Witness ==
    /\ ret.op = "rebuild"
    /\ Cardinality(DOMAIN blockToReqs) = 2
    /\ \E r \in ReqIds : getBlocksForRequirement(World, r) = BlockIds

CountReq(list, r) == Cardinality({i \in DOMAIN list : list[i].reqId = r})

\* C6: no block holds two records with the same reqId, in its canonical
\* linkedRequirements or in blockToReqs, and once a link of r to block b has
\* been asked for (a first or a second time) there is exactly one record for
\* the pair in both.
C6_OneRecordPerPair ==
    /\ \A i \in Blocks(World), r \in ReqIds : CountReq(LinksOf(World, i), r) <= 1
    /\ \A b \in DOMAIN blockToReqs, r \in ReqIds :
          CountReq(getRequirementsForBlock(World, b), r) <= 1
    /\ (ready /\ ret.op = "link" /\ findBlock(World, ret.blockId) # 0) =>
          /\ CountReq(LinksOf(World, findBlock(World, ret.blockId)), ret.reqId) = 1
          /\ CountReq(getRequirementsForBlock(World, ret.blockId), ret.reqId) = 1

StepLinks(b, r) == ret'.op = "link" /\ ret'.ok /\ ret'.blockId = b /\ ret'.reqId = r
StepUnlinks(b, r) == ret'.op = "unlink" /\ ret'.ok /\ ret'.blockId = b /\ ret'.reqId = r
StepRebuilds == ret'.op \in {"create", "rebuild"}

\* a successful link of r, linked to no block, to b makes r linked to exactly b
LinkTakesEffect ==
    \A b \in BlockIds, r \in ReqIds :
        (StepLinks(b, r) /\ ~isRequirementLinked(World, r)) =>
            /\ isRequirementLinked(World', r)
            /\ getBlocksForRequirement(World', r) = {b}

\* C7 as stated: after a successful link of r (linked to no block) to b,
\* isRequirementLinked(r) holds and getBlocksForRequirement(r) is exactly [b],
\* and stays so until r is unlinked from b or the index is rebuilt.
C7_ExactlyThatBlockUntilUnlinked ==
    [][/\ LinkTakesEffect
       /\ \A b \in BlockIds, r \in ReqIds :
            (/\ ret.op = "link" /\ ret.ok /\ ret.blockId = b /\ ret.reqId = r
             /\ getBlocksForRequirement(World, r) = {b}
             /\ ~StepUnlinks(b, r) /\ ~StepRebuilds)
                => getBlocksForRequirement(World', r) = {b}]_vars

\* C7 amended: the link takes effect; from then on r stays linked and b stays
\* among its blocks until r is unlinked from b or the index is rebuilt, and
\* the blocks of r stay exactly [b] as long as, besides, r is not linked to
\* another block.
C7_LinkedUntilUnlinked ==
    [][/\ LinkTakesEffect
       /\ \A b \in BlockIds, r \in ReqIds :
            /\ (/\ b \in getBlocksForRequirement(World, r)
                /\ ~StepUnlinks(b, r) /\ ~StepRebuilds)
                   => /\ isRequirementLinked(World', r)
                      /\ b \in getBlocksForRequirement(World', r)
            /\ (/\ getBlocksForRequirement(World, r) = {b}
                /\ ~StepUnlinks(b, r) /\ ~StepRebuilds
                /\ \A c \in BlockIds \ {b} : ~StepLinks(c, r))
                   => getBlocksForRequirement(World', r) = {b}]_vars

\* a successful link has left its requirement on exactly its block, while
\* the other requirement is linked elsewhere
C7_Witness ==
    /\ ret.op = "link" /\ ret.ok
    /\ getBlocksForRequirement(World, ret.reqId) = {ret.blockId}
    /\ \E r \in ReqIds \ {ret.reqId} : isRequirementLinked(World, r)

NoEmptyEntries ==
    /\ \A b \in DOMAIN blockToReqs : Len(heap[blockToReqs[b]]) > 0
    /\ \A r \in DOMAIN reqToBlocks : reqToBlocks[r] # {}

\* C8: neither map ever stores an empty list or an empty set; unlinking the
\* last requirement the index holds for block b removes key b (hasLinks(b)
\* false), and unlinking r from the last block the index holds for it removes
\* key r of reqToBlocks.
C8_EmptyEntriesPruned ==
    /\ []NoEmptyEntries
    /\ [][\A b \in BlockIds, r \in ReqIds :
            StepUnlinks(b, r) =>
              /\ ReqIdsOf(getRequirementsForBlock(World, b)) \subseteq {r}
                    => (~hasLinks(World', b) /\ b \notin DOMAIN blockToReqs')
              /\ getBlocksForRequirement(World, r) \subseteq {b}
                    => r \notin DOMAIN reqToBlocks']_vars

\* an unlink has removed block and requirement from the maps while another
\* block is still linked
C8_Witness ==
    /\ ret.op = "unlink" /\ ret.ok
    /\ ret.blockId \notin DOMAIN blockToReqs
    /\ ret.reqId \notin DOMAIN reqToBlocks
    /\ blockToReqs # EmptyMap

\* for some block of the document, the reqIds the index holds for its id are
\* not the reqIds of its canonical linkedRequirements, and a rebuild from the
\* document would not give the reqIds the index holds
Drift(w) ==
    /\ \E i \in Blocks(w) :
          ReqIdsOf(getRequirementsForBlock(w, w.doc[i].id)) # ReqIdsOf(LinksOf(w, i))
    /\ \E b \in BlockIds :
          ReqIdsOf(getRequirementsForBlock(w, b))
              # ReqIdsOf(getRequirementsForBlock(rebuildFromDocument(w), b))

\* C9: whenever the live index disagrees with the document,
\* verifySyncWithDocument(doc) returns false.
C9_DriftDetected == (ready /\ Drift(World)) => ~verifySyncWithDocument(World)

\* C10: after the index is built from the document and link and unlink
\* operations are performed through the EditorController, with no other
\* edit, verifySyncWithDocument(current document) returns true.
C10_InSyncAfterLinks == ready => verifySyncWithDocument(World)

\* C11: verifySyncWithDocument is a pure check: whatever it returns, the
\* document and both maps of the live index (keys and records) are after the
\* call what they were before, so drift it has found is still there.
C11_VerifyIsPure ==
    [][ret'.op = "verify" =>
          /\ doc' = doc
          /\ heap' = heap
          /\ reqToBlocks' = reqToBlocks
          /\ blockToReqs' = blockToReqs
          /\ Snapshot(World') = Snapshot(World)]_vars

\* a check that found the index out of step with the document and left it so
C11_Witness ==
    /\ ret.op = "verify" /\ ~ret.ok
    /\ blockToReqs # EmptyMap
    /\ Snapshot(World) # Snapshot(Fresh)

\* C12: after any sequence of link, unlink, undo and redo operations,
\* isRequirementLinked(r) is true exactly when some block of the current
\* document has r in its linkedRequirements, and getBlocksForRequirement(r)
\* lists exactly those blocks.
C12_InSyncAcrossUndo ==
    ready =>
        \A r \in ReqIds :
            /\ isRequirementLinked(World, r) <=> (BlocksLinking(World, r) # {})
            /\ getBlocksForRequirement(World, r) = BlocksLinking(World, r)

Committed == ret.op \in {"commit", "save"} /\ ret.ok

\* stored blockMeta records of a document
MetaOf(d) == {k \in DOMAIN db.blockMeta : db.blockMeta[k].docId = d}

\* C13: after a successful commitSnapshot for document d with
\* presentBlockIds = P, no stored blockMeta record of d has a blockId
\* outside P, whatever was stored before and whatever metaRecords held.
C13_StaleMetadataRemoved ==
    Committed => \A k \in MetaOf(ret.docId) : db.blockMeta[k].blockId \in ret.present

\* a commit that deleted the stored metadata of a block no longer present,
\* with another block still present
C13_Witness ==
    /\ Committed /\ ret.op = "commit"
    /\ ret.stale # {}
    /\ MetaOf(ret.docId) # {}

C15_FailedCommitChangesNothing ==
    [][ret'.op \in {"commit", "save"} =>
          /\ (ret'.failAt \in 1..3 => ~ret'.ok)
          /\ (ret'.failAt = NoFailure => ret'.ok)
          /\ (~ret'.ok => db' = db)]_vars

\* a commit whose last step, the bulk delete, failed, on a database that has
\* records
C15_Witness ==
    /\ ret.op = "commit" /\ ~ret.ok /\ ret.failAt = 4
    /\ db.blockMeta # EmptyMap
    /\ db.documents # EmptyMap

LogicalBlocks(d) ==
    {i \in DOMAIN d : IsDocBlock(d[i])
                        /\ \A k \in 1..(i - 1) : ~(Inside(d, k, i) /\ IsDocBlock(d[k]))}

\* C17: the Block Position Index built from the document has exactly the
\* ids of the docBlocks that are not inside another docBlock, and for each of
\* these blocks the entry of its id holds the position, size and blockType of
\* that node and hasLinks true iff its linkedRequirements is not empty.
C17_OneEntryPerLogicalBlock ==
    LET index == buildBlockIndex(World)
    IN  /\ DOMAIN index = {doc[i].id : i \in LogicalBlocks(doc)} \ {NoId}
        /\ \A i \in LogicalBlocks(doc) :
              doc[i].id # NoId =>
                  /\ doc[i].id \in DOMAIN index
                  /\ index[doc[i].id].pos = posOf(doc, i)
                  /\ index[doc[i].id].nodeSize = nodeSize(doc, i)
                  /\ index[doc[i].id].type = doc[i].blockType
                  /\ index[doc[i].id].hasLinks = (LinksOf(World, i) # <<>>)

\* C18: in every state of the view the blocks map of the BlockIndex plugin
\* state is buildBlockIndex of the state's document, and a scrollToBlock or
\* selectBlock that found its block resolved, without throwing, the position
\* that buildBlockIndex of the document it acted on gives for that block;
\* one that did not find it was asked for an id that document does not index.
C18_PositionsNeverStale ==
    /\ blockIndex = buildBlockIndex(World)
    /\ ~log.threw
    /\ (ready /\ ret.op \in {"scroll", "select"}) =>
          IF ret.ok
          THEN /\ ret.blockId \in DOMAIN buildBlockIndex(World)
               /\ log.pos = buildBlockIndex(World)[ret.blockId].pos + 1
          ELSE ret.blockId \notin DOMAIN buildBlockIndex(World)

\* a block was duplicated and linked, and scrollToBlock went to the copy: the
\* position and the hasLinks it found were computed after both transactions
C18_Witness ==
    /\ ret.op = "scroll" /\ ret.ok
    /\ Len(doc) = 2 /\ doc[1].id = ret.blockId /\ doc[2].id = ret.blockId
    /\ log.pos = posOf(doc, 2) + 1
    /\ blockIndex[ret.blockId].hasLinks
    /\ LinksOf(World, 1) = <<>>

\* ids no block of the document carries
UnknownBlock(w, b) == \A i \in DOMAIN w.doc : ~(IsDocBlock(w.doc[i]) /\ w.doc[i].id = b)
UnknownReq(w, r) ==
    \A i \in DOMAIN w.doc : IsDocBlock(w.doc[i]) => r \notin ReqIdsOf(LinksOf(w, i))

\* the document, the two indexes, the history and the database are as before
\* (the same arrays with the same records, whatever their addresses)
SameState ==
    LET before == Collect(World)
    IN  /\ doc' = before.doc /\ heap' = before.heap
        /\ reqToBlocks' = before.reqToBlocks /\ blockToReqs' = before.blockToReqs
        /\ blockIndex' = before.blocks /\ history' = before.hist /\ db' = before.db
        /\ requirements' = before.reqs /\ locks' = before.locks /\ views' = before.views
        /\ page' = before.page /\ lastSaveTime' = before.lastSaveTime
        /\ options' = before.options

\* C19: asked about a block id or a requirement id that no block of the
\* document carries, or that the index asked has no entry for,
\* getBlockPosition returns null, getRequirementsForBlock and
\* getBlocksForRequirement nothing, hasLinks and isRequirementLinked false,
\* getLinkCount 0, and scrollToBlock and selectBlock return false and
\* dispatch no transaction; none of them throws or changes the state.
C19_UnknownIdsAreRoutine ==
    [][/\ ret'.op = "query" =>
            /\ SameState /\ ~log'.threw /\ log'.dispatched = 0
            /\ (UnknownBlock(World, ret'.blockId) \/ ret'.blockId \notin DOMAIN blockIndex) =>
                  log'.answer.position = NoPosition
            /\ (UnknownBlock(World, ret'.blockId) \/ ret'.blockId \notin DOMAIN blockToReqs) =>
                  /\ log'.answer.requirements = <<>>
                  /\ ~log'.answer.hasLinks
                  /\ log'.answer.count = 0
            /\ (UnknownReq(World, ret'.reqId) \/ ret'.reqId \notin DOMAIN reqToBlocks) =>
                  /\ log'.answer.blocks = {}
                  /\ ~log'.answer.linked
       /\ (/\ ret'.op \in {"scroll", "select"}
           /\ (UnknownBlock(World, ret'.blockId) \/ ret'.blockId \notin DOMAIN blockIndex)) =>
            /\ ~ret'.ok
            /\ SameState /\ ~log'.threw /\ log'.dispatched = 0]_vars

\* the view was asked about a block and a requirement its document does not
\* hold, while the index holds another block and another requirement
C19_Witness ==
    /\ ready /\ ret.op = "query"
    /\ UnknownBlock(World, ret.blockId) /\ UnknownReq(World, ret.reqId)
    /\ blockToReqs # EmptyMap /\ blockIndex # EmptyMap
    /\ log.answer = NoAnswer

\* scrollToBlock was asked for a block the document does not hold
C19_ScrollWitness ==
    /\ ready /\ ret.op = "scroll" /\ ~ret.ok
    /\ UnknownBlock(World, ret.blockId)
    /\ blockIndex # EmptyMap

\* both maps of the Link Index hold after the step what they held before
SameIndex ==
    /\ reqToBlocks' = reqToBlocks
    /\ DOMAIN blockToReqs' = DOMAIN blockToReqs
    /\ \A b \in DOMAIN blockToReqs :
          getRequirementsForBlock(World', b) = getRequirementsForBlock(World, b)

C21_RebuiltOnLoad ==
    (ready /\ ret.op \in {"create", "new", "clear", "load"} /\ ret.ok) =>
        Snapshot(World) = Snapshot(Fresh)

\* C22: after any linkToBlock and unlinkFromBlock calls on the requirements
\* store, every requirement has status 'linked' iff its linkedBlockIds is not
\* empty and 'unlinked' iff it is empty.
C22_StatusFollowsLinks ==
    \A r \in DOMAIN requirements :
        /\ requirements[r].status = "linked" <=> requirements[r].linkedBlockIds # <<>>
        /\ requirements[r].status = "unlinked" <=> requirements[r].linkedBlockIds = <<>>

\* C23: after user link actions (click on a block in linking mode) and
\* unlink actions (sidebar unlink), for every requirement of the store the
\* set of its linkedBlockIds is the set getBlocksForRequirement returns.
C23_StoreMirrorsIndex ==
    ready =>
        \A r \in DOMAIN requirements :
            {requirements[r].linkedBlockIds[k] : k \in DOMAIN requirements[r].linkedBlockIds}
                = getBlocksForRequirement(World, r)

\* view t holds an unexpired lease of the document it has open
HoldsLease(t) == views[t].mode = "owner" /\ views[t].expiresAt > now

RECURSIVE ActivityCalls(_)
ActivityCalls(n) ==
    IF n = 0 THEN <<>> ELSE <<"recheckOwnership", "refreshLease">> \o ActivityCalls(n - 1)

\* C25: a visibility change to 'visible' makes every registration of the
\* view call recheckOwnership and then refreshLease, before anything else
\* the view does, so that a view still in owner mode afterwards owns the
\* record; a change to 'hidden' calls neither; registrations whose cleanup
\* function was called call neither.
C25_RecheckBeforeRefresh ==
    [][ret'.op = "visibilitychange" =>
          LET t == ret'.tab
              n == views[t].registered
          IN  /\ views'[t].visible = ret'.ok
              /\ ret'.ok => /\ log'.calls = ActivityCalls(n)
                            /\ n > 0 => (views'[t].mode = "owner" => OwnsRecord(World', t))
              /\ ~ret'.ok => log'.calls = <<>>
              /\ n = 0 => log'.calls = <<>>]_vars

\* a view that was in owner mode became visible again and its re-check found
\* the record taken by the other view: nothing was refreshed
C25_Witness ==
    /\ ret.op = "visibilitychange" /\ ret.ok
    /\ log.calls = <<"recheckOwnership", "refreshLease">>
    /\ views[ret.tab].mode = "observer"
    /\ views[ret.tab].expiresAt > 0
    /\ \E u \in DOMAIN views : u # ret.tab /\ OwnsRecord(World, u) /\ HoldsLease(u)

\* after its cleanup a view in owner mode became visible and nothing was called
C25_CleanupWitness ==
    /\ ret.op = "visibilitychange" /\ ret.ok
    /\ log.calls = <<>>
    /\ views[ret.tab].mode = "owner"

\* calls of flushNow among the calls of the last event
Flushes(calls, fn) == Cardinality({k \in DOMAIN calls : calls[k] = fn})

\* live registrations of flushNow
LiveFlush(fn) == {k \in DOMAIN page.live : page.live[k].fn = fn}

\* C26 as stated: a change to 'hidden', a pagehide and a beforeunload call
\* flushNow once for each registration that was not cleaned up; a change to
\* 'visible' calls nothing.
C26_FlushOncePerRegistration ==
    [][/\ (ret'.op = "visibilitychange" /\ ~ret'.ok) => log'.calls = <<>>
       /\ (\/ ret'.op = "visibilitychange" /\ ret'.ok
           \/ ret'.op \in {"pagehide", "beforeunload"}) =>
             \A fn \in FlushCallbacks :
                 Flushes(log'.calls, fn) = Cardinality(LiveFlush(fn))]_vars

\* C26 amended: a change to 'hidden' calls flushNow once for each
\* registration that was not cleaned up; a pagehide and a beforeunload call
\* it once for each such registration of the page lifecycle module and once
\* more when the storage utilities registered it, however many times they
\* did; a change to 'visible' calls nothing; the registrations of the
\* storage utilities return no cleanup function and stay.
C26_FlushOnPageExit ==
    [][/\ (ret'.op = "visibilitychange" /\ ~ret'.ok) => log'.calls = <<>>
       /\ (ret'.op = "visibilitychange" /\ ret'.ok) =>
             \A fn \in FlushCallbacks :
                 Flushes(log'.calls, fn) = Cardinality(LiveFlush(fn))
       /\ ret'.op \in {"pagehide", "beforeunload"} =>
             \A fn \in FlushCallbacks :
                 Flushes(log'.calls, fn) =
                     Cardinality({k \in LiveFlush(fn) : page.live[k].cleanup})
                       + (IF \E k \in LiveFlush(fn) : ~page.live[k].cleanup THEN 1 ELSE 0)
       /\ ret'.op = "cleanupFlush" =>
             \A k \in DOMAIN page.live :
                 ~page.live[k].cleanup => page.live[k] \in Range(page'.live)]_vars

\* after the cleanup of one of two registrations of the same flushNow, a
\* pagehide called it once
C26_Witness ==
    /\ ret.op = "pagehide"
    /\ page.registered = 2
    /\ Len(page.live) = 1 /\ page.live[1].cleanup
    /\ log.calls = <<page.live[1].fn>>

\* C27: maybeForceFlush calls flushNow exactly when more than
\* MAX_SAVE_INTERVAL ms passed since lastSaveTime and then records the time;
\* resetSaveTime records the time; when the calls of maybeForceFlush are at
\* most MaxCallPeriod apart, no call finds more than
\* MAX_SAVE_INTERVAL + MaxCallPeriod since the last recorded save.
C27_ForcedFlushBoundsLoss ==
    [][/\ ret'.op = "maybeForceFlush" =>
             /\ log'.calls # <<>> <=> log'.at - lastSaveTime > 10000
             /\ log'.calls # <<>> => /\ log'.calls = <<ret'.reqId>>
                                     /\ lastSaveTime' = now'
             /\ log'.calls = <<>> => lastSaveTime' = lastSaveTime
             /\ log'.at - lastSaveTime <= 10000 + MaxCallPeriod
             /\ now' - lastSaveTime' <= 10000
       /\ ret'.op = "resetSaveTime" => lastSaveTime' = now']_vars

\* a call exactly MAX_SAVE_INTERVAL after the last save did not flush, and
\* a later one did
C27_Witness ==
    /\ ret.op = "maybeForceFlush" /\ ret.ok
    /\ lastSaveTime = now
    /\ lastSaveTime > 10000
    /\ log.at > 10000 + 2500

\* C28: creating an editor view leaves the Link Index another editor view
\* of the same runtime observes as it was.
C28_IndexOwnedByOneView ==
    [][ret'.op = "createOther" => SameIndex]_vars

\* the live index is what rebuildFromDocument produces for the document
IndexIsRebuild ==
    /\ reqToBlocks = Fresh.reqToBlocks
    /\ DOMAIN blockToReqs = DOMAIN Fresh.blockToReqs
    /\ \A b \in DOMAIN blockToReqs :
          getRequirementsForBlock(World, b) = getRequirementsForBlock(Fresh, b)

\* C29: after a move the Position Index is the one built from the new
\* document, the Link Index is as it was, and a Link Index that was what
\* rebuildFromDocument produces for the document still is.
C29_MoveNeedsNoIndexWork ==
    [][ret'.op = "move" =>
          /\ blockIndex' = buildBlockIndex(World)'
          /\ SameIndex
          /\ IndexIsRebuild => IndexIsRebuild']_vars

\* a linked block was moved and its position changed
C29_Witness ==
    /\ ret.op = "move"
    /\ ret.blockId \in DOMAIN blockToReqs
    /\ ret.blockId \in DOMAIN blockIndex
    /\ blockIndex[ret.blockId].pos > 0
    /\ IndexIsRebuild

\* the canonical linkedRequirements of the block findBlock reaches
CanonicalLinks(w, blockId) == w.heap[w.doc[findBlock(w, blockId)].lr]

\* C30: after a successful linkRequirementToBlock(b, r) the list the live
\* index holds for b is the canonical linkedRequirements list of block b,
\* record for record: same reqIds in the same order, same coverage,
\* confidence and timestamp.
C30_IncrementalRecordsAreCanonical ==
    (ret.op = "link" /\ ret.ok) =>
        getRequirementsForBlock(World, ret.blockId) = CanonicalLinks(World, ret.blockId)

\* records of a list with a reqId
RecordsOf(list, reqId) == {k \in DOMAIN list : list[k].reqId = reqId}

AddedReqIds(event) == {event.addedLinks[k].reqId : k \in DOMAIN event.addedLinks}
RemovedReqIds(event) == {event.removedLinks[k] : k \in DOMAIN event.removedLinks}

\* C31: after one applyTransactionUpdate a reqId that is in removedLinks
\* and in addedLinks is linked to the block with exactly one record, a
\* reqId that is in addedLinks is linked to it, and a reqId that is only in
\* removedLinks is not.
C31_RemovalsBeforeAdditions ==
    ret.op = "update" =>
        LET event == log.emitted
            list == getRequirementsForBlock(World, event.blockId)
        IN  \A r \in ReqIds :
              /\ r \in AddedReqIds(event) =>
                    /\ RecordsOf(list, r) # {}
                    /\ event.blockId \in getBlocksForRequirement(World, r)
              /\ r \in AddedReqIds(event) \cap RemovedReqIds(event) =>
                    Cardinality(RecordsOf(list, r)) = 1
              /\ r \in RemovedReqIds(event) \ AddedReqIds(event) =>
                    /\ RecordsOf(list, r) = {}
                    /\ event.blockId \notin getBlocksForRequirement(World, r)

\* an update removed and added the same reqId of a block that had another
\* link too
C31_Witness ==
    /\ ret.op = "update"
    /\ AddedReqIds(log.emitted) = RemovedReqIds(log.emitted)
    /\ AddedReqIds(log.emitted) # {}
    /\ Len(getRequirementsForBlock(World, log.emitted.blockId)) = 2

\* the reqIds the document links to the block findBlock reaches
LinkedIn(w, blockId) ==
    IF findBlock(w, blockId) = 0 THEN {} ELSE ReqIdsOf(CanonicalLinks(w, blockId))

\* the reqIds the index links to a block
IndexedIn(w, blockId) == ReqIdsOf(getRequirementsForBlock(w, blockId))

\* a link or unlink that returned false changed nothing
FailedChangesNothing ==
    (ret'.op \in {"link", "unlink"} /\ ~ret'.ok) =>
        SameState /\ log'.dispatched = 0 /\ log'.updates = 0

\* where the index of a block changed, the canonical links of that block
\* changed in the same way
IndexFollowsDocument ==
    \A b \in BlockIds :
        IndexedIn(World', b) # IndexedIn(World, b) =>
            /\ IndexedIn(World', b) \ IndexedIn(World, b)
                  = LinkedIn(World', b) \ LinkedIn(World, b)
            /\ IndexedIn(World, b) \ IndexedIn(World', b)
                  = LinkedIn(World, b) \ LinkedIn(World', b)

\* C32: linkRequirementToBlock and unlinkRequirementFromBlock return false
\* and change neither the document nor the Link Index when the editor is
\* not ready, the block is not found or (link) the requirement is already
\* linked; and in every step after the index was built, the Link Index
\* changes only where the canonical links of the document change in the
\* same way.
C32_IndexWrittenWithDocument ==
    [][/\ FailedChangesNothing
       /\ ret'.op \notin {"create", "rebuild"} => IndexFollowsDocument]_vars

\* the ids of the docBlocks are unique in the document and in every
\* document undo and redo can bring back
AllUnique ==
    /\ UniqueIds(doc)
    /\ \A k \in DOMAIN (history.undo \o history.redo) :
          UniqueIds((history.undo \o history.redo)[k])

\* two docBlocks with the same id and equal linkedRequirements
Twins(i, j) ==
    /\ i < j /\ IsDocBlock(doc[i]) /\ IsDocBlock(doc[j])
    /\ doc[i].id = doc[j].id
    /\ heap[doc[i].lr] = heap[doc[j].lr]

C34_WrapperAppendsOnce ==
    [][/\ log'.appended <= 1
       /\ log'.appended = 1 <=>
             (options.enabled /\ log'.changed /\ toWrap(log'.root) # {})]_vars

\* a transaction that did not change a document with a raw top-level
\* paragraph went through the enabled wrapper
C34_Witness ==
    /\ options.enabled
    /\ ret.op = "select" /\ ret.ok
    /\ toWrap(doc) # {}
    /\ log.dispatched = 1 /\ log.appended = 0

\* C35: with the wrapper enabled, after a transaction that changed the
\* document no top-level node of a wrappable type is left; every such node
\* the transaction left is replaced by a docBlock around it with an id no
\* node had, the blockType of the node and no linkedRequirements, and the
\* other nodes are as the transaction left them, in the same order.
C35_RawBlocksWrapped ==
    [][(options.enabled /\ log'.changed) =>
          /\ toWrap(doc') = {}
          /\ Len(doc') = Len(log'.root)
          /\ ret'.op \notin {"link", "unlink"} =>
                \A k \in DOMAIN log'.root :
                    IF k \in toWrap(log'.root)
                    THEN /\ DocumentOf(World)'[k] =
                              [type |-> "docBlock", id |-> doc'[k].id, depth |-> 0,
                               blockType |-> BlockTypeOf(log'.root[k].type),
                               links |-> <<>>]
                         /\ doc'[k].id # NoId
                         /\ doc'[k].id \notin IdsOf(log'.root)
                         /\ \A j \in DOMAIN doc' : j # k => doc'[j].id # doc'[k].id
                    ELSE DocumentOf(World)'[k] = log'.root[k]]_vars

\* a raw heading that was moved behind a linked docBlock is wrapped, the
\* docBlock is as it was
C35_Witness ==
    /\ options.enabled
    /\ ret.op = "move"
    /\ Len(doc) = 2
    /\ doc[1].id \in BlockIds /\ heap[doc[1].lr] # <<>>
    /\ doc[2].id \notin BlockIds /\ IsDocBlock(doc[2]) /\ doc[2].blockType = "heading"
    /\ log.appended = 1

DocBlockIds(d) == {d[k].id : k \in {j \in DOMAIN d : d[j].type = "docBlock"}} \ {NoId}

\* C37: the Link Index never reports a block that is not in the document:
\* once the index is built, every block id getBlocksForRequirement returns
\* is the id of a docBlock of the current document.
C37_IndexReportsPresentBlocks ==
    ready =>
        \A r \in ReqIds : getBlocksForRequirement(World, r) \subseteq DocBlockIds(doc)

\* C38: index operations never modify canonical data: rebuildFromDocument
\* and every later applyTransactionUpdate leave every node of the document
\* the index was built from, its linkedRequirements list included, as it was.
C38_IndexLeavesDocumentAlone ==
    [][ret'.op \in {"create", "rebuild", "update"} =>
          DocumentOf(World)' = DocumentOf(World)]_vars

\* C39: navigation from the Link Index always resolves: when the Link Index
\* and the Block Position Index have just been built from the same document,
\* every block id getBlocksForRequirement returns has an entry in the Block
\* Position Index and scrollToBlock on it returns true.
C39_LinkedBlocksHavePositions ==
    (ret.op = "create" /\ blockIndex = buildBlockIndex(World)) =>
        \A r \in ReqIds :
            \A b \in getBlocksForRequirement(World, r) :
                /\ getBlockPosition(World, b) # NoPosition
                /\ scrollToBlock(World, b).ok
====
